---- MODULE Spec2Model ----
(***************************************************************************)
(* Model of the Gemini live session engine (rust/src/gemini.rs) and of the *)
(* single-slot frame cache (rust/core/src/capture.rs).                     *)
(*                                                                         *)
(* SpecSession : one task owning the GeminiSession (connect, then recv /   *)
(*               send_message / close one after the other) and the tasks   *)
(*               holding cloned GeminiSender handles.  A step is the code  *)
(*               between two await points.                                 *)
(* SpecCapture : the producer thread of FrameSource::new and the tasks     *)
(*               calling FrameSource::get_next_frame.                      *)
(***************************************************************************)
EXTENDS Integers, Sequences, FiniteSets, TLC

\* ------------------------------------------------------------------------
\* Bounds
\* ------------------------------------------------------------------------
\* number of items the inbound half yields before it stays silent
MaxInbound == 3
\* send/close calls start only while fewer frames than this are on the wire
MaxOut == 3
\* number of frames the capture source yields
MaxFrames == 3
\* largest count capture_frames is called with
MaxCount == 2

\* ------------------------------------------------------------------------
\* Tasks
\* ------------------------------------------------------------------------
SessionTask == "session"
Handles == {"h1"}
Tasks == {SessionTask} \cup Handles
NoTask == "none"

VARIABLES
    closed,       \* GeminiSession.closed / GeminiSender.closed (shared flag)
    pending,      \* GeminiSession.pending
    lockHolder,   \* owner of the tokio Mutex around the outbound half
    outWire,      \* frames written to the outbound half, oldest first
    polls,        \* number of items the inbound half has yielded
    inbound,      \* the item the inbound half yielded last
    stream,       \* "open", or how the inbound half came to its end
    events,       \* events classified from inbound messages, in arrival order
    delivered,    \* events recv has returned, oldest first
    pc,           \* position of every task
    res,          \* result of the call a task made last
    msg,          \* the ClientMessage variant a task is sending
    ctx,          \* who called read_next_event: "connect" or "recv"
    connected,    \* result of GeminiSession::connect
    response,     \* status of the upgrade response connect_async returned
    op,           \* the call a task made last
    closeOk,      \* history: a close call has returned Ok
    endedAt,      \* history: polls when recv observed the end of stream, or 0
    since         \* history: what held when a task's current call started

VARIABLES
    last_frame,   \* FrameSource.last_frame: the cached frames, oldest first
    permit,       \* FrameSource.frame_ready: the Notify holds a permit
    waiters,      \* FrameSource.frame_ready: tasks registered with the Notify
    ppc,          \* position of the producer thread
    yielded,      \* number of items the capture source has yielded
    last_item,    \* the item the capture source yielded last
    produced,     \* number of frames the producer has stored
    cpc,          \* position of every consumer task
    got,          \* what a consumer's last get_next_frame call returned
    returned      \* frames get_next_frame has returned, oldest first

VARIABLES
    body,         \* the decoded message body handed to parse_server_event
    parsed        \* what parse_server_event returned for it

classifierVars == <<body, parsed>>

VARIABLES
    message,      \* the ClientMessage handed to serde_json::to_string
    encoded,      \* the JSON document it is serialized to
    decoded       \* what the clientContent payload deserializes to

codecVars == <<message, encoded, decoded>>

VARIABLES
    loop,         \* the task OutputProcessor::spawn starts: its position
    bpc,          \* position of the task calling capture_frames
    count,        \* capture_frames: its argument
    index,        \* capture_frames: i of the for loop
    logged,       \* capture_frames: how the last frame taken fared
    bres          \* capture_frames: its result

pipelineVars == <<loop, bpc, count, index, logged, bres>>

captureVars == <<last_frame, permit, waiters, ppc, yielded, last_item,
                 produced, cpc, got, returned>>

sessionVars == <<closed, pending, lockHolder, outWire, polls, inbound,
                 stream, events, delivered, pc, res, msg, ctx, connected,
                 response, op, closeOk, endedAt, since>>

\* ------------------------------------------------------------------------
\* Event classifier
\* ------------------------------------------------------------------------
known_keys == <<"setupComplete", "serverContent", "toolCall",
                "toolCallCancellation", "goAway", "sessionResumptionUpdate">>

\* the ServerEvent variant decoded from a known key
EventKind(key) ==
    CASE key = "setupComplete"           -> "SetupComplete"
      [] key = "serverContent"           -> "ServerContent"
      [] key = "toolCall"                -> "ToolCall"
      [] key = "toolCallCancellation"    -> "ToolCallCancellation"
      [] key = "goAway"                  -> "GoAway"
      [] key = "sessionResumptionUpdate" -> "SessionResumptionUpdate"

\* A decoded JSON value: json is "object" or "other"; keys are the keys of
\* the object; bad are the keys whose value does not decode into its type.
JsonValue(json, keys, bad) == [json |-> json, keys |-> keys, bad |-> bad]

ParseErr(e, matched) ==
    [ok |-> FALSE, err |-> e, kind |-> "none", usage |-> FALSE,
     raw |-> {}, matched |-> matched]

ParseOk(kind, usage, raw) ==
    [ok |-> TRUE, err |-> "none", kind |-> kind, usage |-> usage,
     raw |-> raw, matched |-> <<>>]

\* mutant of detach_usage: the usageMetadata key stays in the object
keep_usage(keys) == keys

\* object.remove("usageMetadata"): the keys left in the object
detach_usage(keys) == keys \ {"usageMetadata"}

\* mutant of has_error: an error key counts only when no known key is there
has_error_alone(object) ==
    /\ "error" \in object
    /\ \A i \in 1..Len(known_keys) : known_keys[i] \notin object

\* object.remove("error") is Some
has_error(object) == "error" \in object

\* mutant of matched_keys: the search stops at the first known key found
first_matched(object) ==
    LET all == SelectSeq(known_keys, LAMBDA key : key \in object)
    IN IF all = <<>> THEN all ELSE <<Head(all)>>

\* known_keys.iter().filter(|key| object.contains_key(key)).collect()
matched_keys(object) == SelectSeq(known_keys, LAMBDA key : key \in object)

parse_server_event(value) ==
    IF value.json # "object" THEN ParseErr("UnexpectedServerMessage", <<>>)
    ELSE IF "usageMetadata" \in value.keys /\ "usageMetadata" \in value.bad
    THEN ParseErr("Serde", <<>>)
    ELSE
      LET usage_metadata == "usageMetadata" \in value.keys
          object == detach_usage(value.keys)
      IN IF has_error(object)
         THEN IF "error" \in value.bad
              THEN ParseErr("Serde", <<>>)
              ELSE ParseOk("Error", usage_metadata, {})
         ELSE
           LET matched == matched_keys(object)
           IN IF Len(matched) > 1
              THEN ParseErr("MultipleServerMessageTypes", matched)
              ELSE IF Len(matched) = 1
              THEN IF matched[1] \in value.bad
                   THEN ParseErr("Serde", <<>>)
                   ELSE ParseOk(EventKind(matched[1]), usage_metadata, {})
              ELSE ParseOk("Unknown", usage_metadata, object)

\* the result slot before parse_server_event has returned
NoParse == ParseErr("pending", <<>>)

\* keys whose value parse_server_event decodes into a type
TypedKeys ==
    {known_keys[i] : i \in 1..Len(known_keys)} \cup {"usageMetadata", "error"}

\* keys a message body can hold: the typed ones and one the client does
\* not know
BodyKeys == TypedKeys \cup {"futureField"}

\* the decoded message bodies handed to parse_server_event: a value that
\* is not an object, and every object over BodyKeys with any of its typed
\* values failing to decode
JsonValues ==
    {JsonValue("other", {}, {})} \cup
    UNION { { JsonValue("object", keys, bad) :
                bad \in SUBSET (keys \cap TypedKeys) } :
            keys \in SUBSET BodyKeys }

\* ------------------------------------------------------------------------
\* Inbound half
\* ------------------------------------------------------------------------
\* An item yielded by receiver.next(): a websocket message, a transport
\* error ("Err") or the end of the stream ("End").
\*   text  : "json" or "malformed" (payload of a Text/Binary message),
\*           or the payload of a Ping
\*   value : the decoded payload of a Text/Binary message
\*   frame : the code of the close frame a Close message carries, if any
Item(type, text, value, frame) ==
    [type |-> type, text |-> text, value |-> value, frame |-> frame]

NoValue == JsonValue("other", {}, {})

\* Message::Close(None), and the frame of every item that is not a Close
NoCloseFrame == "none"

\* CloseCode of a close frame: a normal closure or a protocol error
CloseCodes == {"Normal", "Protocol"}

TextOf(keys) ==
    Item("Text", "json", JsonValue("object", keys, {}), NoCloseFrame)

EndOfStream == Item("End", "none", NoValue, NoCloseFrame)

\* nothing has been read from the inbound half yet
NoItem == Item("none", "none", NoValue, NoCloseFrame)

InboundItems ==
    { TextOf({"setupComplete"}),
      TextOf({"serverContent"}),
      TextOf({"error"}),
      Item("Binary", "json",
           JsonValue("object", {"serverContent", "toolCall"}, {}),
           NoCloseFrame),
      Item("Text", "malformed", NoValue, NoCloseFrame),
      Item("Text", "json", NoValue, NoCloseFrame),
      Item("Ping", "p1", NoValue, NoCloseFrame),
      Item("Pong", "p1", NoValue, NoCloseFrame),
      Item("Close", "none", NoValue, NoCloseFrame),
      Item("Err", "none", NoValue, NoCloseFrame),
      EndOfStream }
    \cup { Item("Close", "none", NoValue, code) : code \in CloseCodes }

\* After a close frame or the end of the stream the inbound half yields
\* nothing but the end of the stream.
StreamOver == stream # "open"

NextItems == IF StreamOver THEN {EndOfStream} ELSE InboundItems

\* A ServerEvent as the session holds it; seq is its arrival position.
Event(kind, seq) == [kind |-> kind, seq |-> seq]

NoEvent == Event("none", 0)

\* ------------------------------------------------------------------------
\* Outbound half
\* ------------------------------------------------------------------------
\* A frame on the outbound wire: kind is "setup", "client" (a serialized
\* ClientMessage of any variant), "pong" or "close"; data is its payload.
Frame(kind, data) == [kind |-> kind, data |-> data]

ClientMessageKinds == {"clientContent", "realtimeInput", "toolResponse"}

\* pcs at which a task holds the outbound lock and is writing
WritePcs == {"setup_write", "send_write", "close_write", "pong_write"}

\* pcs at which a task waits for the outbound lock
LockPcs == {"setup_lock", "send_lock", "close_lock", "pong_lock"}

\* mutant of LockAvailable: the outbound half is shared without a lock
LockNotExclusive == TRUE

\* sender.lock().await resolves only while no task holds the guard
LockAvailable == lockHolder = NoTask

\* t gets the guard and goes on to its write
Acquire(t, from, to) ==
    /\ pc[t] = from
    /\ LockAvailable
    /\ lockHolder' = t
    /\ pc' = [pc EXCEPT ![t] = to]

\* closed.load(Ordering::SeqCst)
ClosedLoad == closed

\* what the properties need to know about the moment a call starts
Started(t, name) ==
    /\ op' = [op EXCEPT ![t] = name]
    /\ since' = [since EXCEPT ![t] =
                   [closeOk |-> closeOk, ended |-> endedAt > 0]]

\* StatusCode::SWITCHING_PROTOCOLS
SWITCHING_PROTOCOLS == "101"

\* statuses the upgrade response can carry
ResponseStatuses == {SWITCHING_PROTOCOLS, "200", "403"}

\* no upgrade response came back: build_request or connect_async failed
NoResponse == "none"

\* GeminiError::HandshakeStatus(response.status())
HandshakeStatus(status) == "HandshakeStatus " \o status

\* mutant of StatusAccepted: every status below 400 is taken as an upgrade
StatusAcceptedWhenNoError(status) == status # "403"

\* response.status() == StatusCode::SWITCHING_PROTOCOLS
StatusAccepted(status) == status = SWITCHING_PROTOCOLS

SessionInit ==
    /\ closed = FALSE
    /\ pending = <<>>
    /\ lockHolder = NoTask
    /\ outWire = <<>>
    /\ polls = 0
    /\ inbound = NoItem
    /\ stream = "open"
    /\ events = <<>>
    /\ delivered = <<>>
    /\ pc = [t \in Tasks |-> IF t = SessionTask THEN "start" ELSE "idle"]
    /\ res = [t \in Tasks |-> "none"]
    /\ msg = [t \in Tasks |-> "none"]
    /\ ctx = "connect"
    /\ connected = "pending"
    /\ response = NoResponse
    /\ op = [t \in Tasks |-> "none"]
    /\ closeOk = FALSE
    /\ endedAt = 0
    /\ since = [t \in Tasks |->
                  [closeOk |-> FALSE, ended |-> FALSE]]

\* ------------------------------------------------------------------------
\* GeminiSession::connect
\* ------------------------------------------------------------------------
ConnectFailed(e) ==
    /\ connected' = e
    /\ pc' = [pc EXCEPT ![SessionTask] = "failed"]

\* the first statement of read_next_event as expect_setup_complete calls it
\* at the top of its loop: Ok(None) when closed, else wait on the receiver
AwaitSetupAck ==
    IF ClosedLoad
    THEN ConnectFailed("SetupNotAcknowledged")
    ELSE /\ pc' = [pc EXCEPT ![SessionTask] = "rne_read"]
         /\ connected' = connected

\* build_request, connect_async and the status check, then send_setup up to
\* its lock().await
Connect ==
    /\ pc[SessionTask] = "start"
    /\ \E outcome \in {"RequestBuild", "WebSocket"} \cup ResponseStatuses :
         IF outcome \notin ResponseStatuses
         THEN /\ response' = NoResponse
              /\ ConnectFailed(outcome)
         ELSE /\ response' = outcome
              /\ IF ~StatusAccepted(outcome)
                 THEN ConnectFailed(HandshakeStatus(outcome))
                 ELSE IF ClosedLoad
                 THEN ConnectFailed("ConnectionClosed")
                 ELSE /\ pc' = [pc EXCEPT ![SessionTask] = "setup_lock"]
                      /\ connected' = connected
    /\ Started(SessionTask, "connect")
    /\ UNCHANGED <<closed, pending, lockHolder, outWire, polls, inbound,
                   stream, events, delivered, res, msg, ctx, closeOk,
                   endedAt>>

SetupLock ==
    /\ Acquire(SessionTask, "setup_lock", "setup_write")
    /\ UNCHANGED <<closed, pending, outWire, polls, inbound, response, stream,
                   events, delivered, res, msg, ctx, connected, op, closeOk,
                   endedAt, since>>

\* send_setup writes the setup frame and drops the guard; connect goes on
\* to expect_setup_complete
SetupWrite ==
    /\ pc[SessionTask] = "setup_write"
    /\ lockHolder' = NoTask
    /\ \E ok \in BOOLEAN :
         IF ok
         THEN /\ outWire' = Append(outWire, Frame("setup", "json"))
              /\ AwaitSetupAck
         ELSE /\ outWire' = outWire
              /\ ConnectFailed("WebSocket")
    /\ UNCHANGED <<closed, pending, polls, inbound, response, stream, events,
                   delivered, res, msg, ctx, op, closeOk, endedAt, since>>

\* mutant of SetupArm: any event other than Error acknowledges the setup
SetupArmAnyEvent(r, ev) ==
    CASE r = "Some" /\ ev.kind = "Error" -> "server_error"
      [] r = "Some"                      -> "complete"
      [] r = "None"                      -> "none"
      [] OTHER                           -> "err"

\* mutant of SetupArm: an Error event is buffered like any other event
SetupArmErrorBuffered(r, ev) ==
    CASE r = "Some" /\ ev.kind = "SetupComplete" -> "complete"
      [] r = "Some"                              -> "other"
      [] r = "None"                              -> "none"
      [] OTHER                                   -> "err"

\* the arm of expect_setup_complete's match that a result of
\* read_next_event takes
SetupArm(r, ev) ==
    CASE r = "Some" /\ ev.kind = "SetupComplete" -> "complete"
      [] r = "Some" /\ ev.kind = "Error"         -> "server_error"
      [] r = "Some"                              -> "other"
      [] r = "None"                              -> "none"
      [] OTHER                                   -> "err"

\* mutant of expect_setup_complete: the SetupComplete that ends the
\* handshake is queued like the events before it
expect_setup_complete_keeps_ack(r, ev) ==
    LET arm == SetupArm(r, ev)
    IN /\ UNCHANGED <<delivered, res>>
       /\ CASE arm = "complete" ->
                 /\ connected' = "Ok"
                 /\ pc' = [pc EXCEPT ![SessionTask] = "idle"]
                 /\ pending' = Append(pending, ev)
            [] arm = "server_error" ->
                 /\ ConnectFailed("ServerError")
                 /\ pending' = pending
            [] arm = "other" ->
                 /\ pending' = Append(pending, ev)
                 /\ AwaitSetupAck
            [] arm = "none" ->
                 /\ ConnectFailed("SetupNotAcknowledged")
                 /\ pending' = pending
            [] arm = "err" ->
                 /\ ConnectFailed(r)
                 /\ pending' = pending

\* the loop of expect_setup_complete, one result of read_next_event at a
\* time
expect_setup_complete(r, ev) ==
    LET arm == SetupArm(r, ev)
    IN /\ UNCHANGED <<delivered, res>>
       /\ CASE arm = "complete" ->
                 /\ connected' = "Ok"
                 /\ pc' = [pc EXCEPT ![SessionTask] = "idle"]
                 /\ pending' = pending
            [] arm = "server_error" ->
                 /\ ConnectFailed("ServerError")
                 /\ pending' = pending
            [] arm = "other" ->
                 /\ pending' = Append(pending, ev)
                 /\ AwaitSetupAck
            [] arm = "none" ->
                 /\ ConnectFailed("SetupNotAcknowledged")
                 /\ pending' = pending
            [] arm = "err" ->
                 /\ ConnectFailed(r)
                 /\ pending' = pending

\* ------------------------------------------------------------------------
\* GeminiSession::recv and read_next_event
\* ------------------------------------------------------------------------
\* recv hands the result of read_next_event to its caller
RecvReturn(r, ev) ==
    /\ pc' = [pc EXCEPT ![SessionTask] = "idle"]
    /\ res' = [res EXCEPT ![SessionTask] = r]
    /\ delivered' = IF r = "Some" THEN Append(delivered, ev) ELSE delivered
    /\ UNCHANGED <<pending, connected>>

ReadReturn(r, ev) ==
    IF ctx = "connect" THEN expect_setup_complete(r, ev) ELSE RecvReturn(r, ev)

\* mutant of pop_front: the queue is drained from its back
pop_back(q) ==
    IF q # <<>>
    THEN [event |-> q[Len(q)], rest |-> SubSeq(q, 1, Len(q) - 1)]
    ELSE [event |-> NoEvent, rest |-> q]

\* mutant of pop_front: the head is returned and stays in the queue
peek_front(q) ==
    IF q # <<>>
    THEN [event |-> Head(q), rest |-> q]
    ELSE [event |-> NoEvent, rest |-> q]

\* self.pending.pop_front(): the event taken, if any, and the queue left
pop_front(q) ==
    IF q # <<>>
    THEN [event |-> Head(q), rest |-> Tail(q)]
    ELSE [event |-> NoEvent, rest |-> q]

\* mutant of Recv: read_next_event does not consult the closed flag
RecvUnchecked ==
    /\ pc[SessionTask] = "idle"
    /\ connected = "Ok"
    /\ Started(SessionTask, "recv")
    /\ ctx' = "recv"
    /\ IF pop_front(pending).event # NoEvent
       THEN /\ pending' = pop_front(pending).rest
            /\ delivered' = Append(delivered, pop_front(pending).event)
            /\ res' = [res EXCEPT ![SessionTask] = "Some"]
            /\ pc' = pc
       ELSE /\ pending' = pending
            /\ delivered' = delivered
            /\ res' = [res EXCEPT ![SessionTask] = "none"]
            /\ pc' = [pc EXCEPT ![SessionTask] = "rne_read"]
    /\ UNCHANGED <<closed, lockHolder, outWire, polls, inbound, response,
                   stream, events, msg, connected, closeOk, endedAt>>

\* mutant of Recv: the closed flag is consulted before the pending queue
RecvClosedFirst ==
    /\ pc[SessionTask] = "idle"
    /\ connected = "Ok"
    /\ Started(SessionTask, "recv")
    /\ ctx' = "recv"
    /\ IF ClosedLoad
       THEN /\ pending' = pending
            /\ delivered' = delivered
            /\ res' = [res EXCEPT ![SessionTask] = "None"]
            /\ pc' = pc
       ELSE IF pop_front(pending).event # NoEvent
       THEN /\ pending' = pop_front(pending).rest
            /\ delivered' = Append(delivered, pop_front(pending).event)
            /\ res' = [res EXCEPT ![SessionTask] = "Some"]
            /\ pc' = pc
       ELSE /\ pending' = pending
            /\ delivered' = delivered
            /\ res' = [res EXCEPT ![SessionTask] = "none"]
            /\ pc' = [pc EXCEPT ![SessionTask] = "rne_read"]
    /\ UNCHANGED <<closed, lockHolder, outWire, polls, inbound, response,
                   stream, events, msg, connected, closeOk, endedAt>>

\* recv: an event from the pending queue, else read_next_event up to its
\* receiver.next().await
Recv ==
    /\ pc[SessionTask] = "idle"
    /\ connected = "Ok"
    /\ Started(SessionTask, "recv")
    /\ ctx' = "recv"
    /\ IF pop_front(pending).event # NoEvent
       THEN /\ pending' = pop_front(pending).rest
            /\ delivered' = Append(delivered, pop_front(pending).event)
            /\ res' = [res EXCEPT ![SessionTask] = "Some"]
            /\ pc' = pc
       ELSE /\ pending' = pending
            /\ delivered' = delivered
            /\ IF ClosedLoad
               THEN /\ res' = [res EXCEPT ![SessionTask] = "None"]
                    /\ pc' = pc
               ELSE /\ res' = [res EXCEPT ![SessionTask] = "none"]
                    /\ pc' = [pc EXCEPT ![SessionTask] = "rne_read"]
    /\ UNCHANGED <<closed, lockHolder, outWire, polls, inbound, response,
                   stream, events, msg, connected, closeOk, endedAt>>

\* how the item leaves the inbound half
StreamAfter(item) ==
    CASE item.type = "End"   -> "end"
      [] item.type = "Close" ->
           IF item.frame = NoCloseFrame THEN "close" ELSE item.frame
      [] OTHER               -> "open"

\* mutant of StoresClosed: a payload that is not JSON also closes the session
StoresClosedOnMalformed(item) ==
    \/ item.type \in {"Close", "End"}
    \/ item.type \in {"Text", "Binary"} /\ item.text # "json"

\* mutant of StoresClosed: the end of the stream leaves closed unset
StoresClosedOnCloseFrame(item) == item.type = "Close"

\* mutant of StoresClosed: a close frame leaves closed unset
StoresClosedOnEnd(item) == item.type = "End"

\* the items on which read_next_event stores true into closed
StoresClosed(item) == item.type \in {"Close", "End"}

\* mutant of ItemResult: every close frame is reported as ServerClosed
ItemResultCloseIsError(item) ==
    CASE item.type \in {"Text", "Binary"} ->
           IF item.text # "json" THEN "Serde"
           ELSE IF parse_server_event(item.value).ok THEN "Some"
           ELSE parse_server_event(item.value).err
      [] item.type = "Close" -> "ServerClosed"
      [] item.type = "Err"   -> "WebSocket"
      [] item.type = "End"   -> "None"
      [] OTHER               -> "continue"

\* mutant of ItemResult: the closed flag is loaded again once the item has
\* arrived, and a set flag makes the read return None
ItemResultChecksFlag(item) ==
    IF closed THEN "None"
    ELSE CASE item.type \in {"Text", "Binary"} ->
                IF item.text # "json" THEN "Serde"
                ELSE IF parse_server_event(item.value).ok THEN "Some"
                ELSE parse_server_event(item.value).err
           [] item.type = "Close" ->
                IF item.frame # NoCloseFrame THEN "ServerClosed" ELSE "None"
           [] item.type = "Err"   -> "WebSocket"
           [] item.type = "End"   -> "None"
           [] OTHER               -> "continue"

\* what read_next_event returns for an item; "continue" keeps the loop going
ItemResult(item) ==
    CASE item.type \in {"Text", "Binary"} ->
           IF item.text # "json" THEN "Serde"
           ELSE IF parse_server_event(item.value).ok THEN "Some"
           ELSE parse_server_event(item.value).err
      [] item.type = "Close" ->
           IF item.frame # NoCloseFrame THEN "ServerClosed" ELSE "None"
      [] item.type = "Err"   -> "WebSocket"
      [] item.type = "End"   -> "None"
      [] OTHER               -> "continue"

\* receiver.next().await yields an item and read_next_event handles it
ReadItem ==
    /\ pc[SessionTask] = "rne_read"
    /\ polls < MaxInbound
    /\ \E item \in NextItems :
         LET r  == ItemResult(item)
             ev == IF r = "Some"
                   THEN Event(parse_server_event(item.value).kind, polls + 1)
                   ELSE NoEvent
         IN /\ polls' = polls + 1
            /\ inbound' = item
            /\ stream' = IF StreamOver THEN stream ELSE StreamAfter(item)
            /\ events' = IF r = "Some" THEN Append(events, ev) ELSE events
            /\ closed' = (closed \/ StoresClosed(item))
            /\ endedAt' = IF endedAt = 0 /\ item.type = "End" /\ ctx = "recv"
                          THEN polls + 1 ELSE endedAt
            /\ IF item.type = "Ping"
               THEN /\ pc' = [pc EXCEPT ![SessionTask] = "pong_lock"]
                    /\ msg' = [msg EXCEPT ![SessionTask] = item.text]
                    /\ UNCHANGED <<pending, delivered, res, connected>>
               ELSE IF r = "continue"
               THEN UNCHANGED <<pc, msg, pending, delivered, res, connected>>
               ELSE /\ ReadReturn(r, ev)
                    /\ msg' = msg
    /\ UNCHANGED <<lockHolder, outWire, ctx, response, op, closeOk, since>>

\* mutant of PongMessage: the pong carries no payload
PongWithoutPayload(payload) == Frame("pong", "")

\* Message::Pong(payload)
PongMessage(payload) == Frame("pong", payload)

PongLock ==
    /\ Acquire(SessionTask, "pong_lock", "pong_write")
    /\ UNCHANGED <<closed, pending, outWire, polls, inbound, response, stream,
                   events, delivered, res, msg, ctx, connected, op, closeOk,
                   endedAt, since>>

\* mutant of PongWrite: the guard outlives the Ping arm, so the loop goes
\* back to receiver.next().await with the lock held
PongWriteKeepsGuard ==
    /\ pc[SessionTask] = "pong_write"
    /\ msg' = [msg EXCEPT ![SessionTask] = "none"]
    /\ \E ok \in BOOLEAN :
         IF ok
         THEN /\ outWire' = Append(outWire, PongMessage(msg[SessionTask]))
              /\ pc' = [pc EXCEPT ![SessionTask] = "rne_read"]
              /\ lockHolder' = lockHolder
              /\ UNCHANGED <<pending, delivered, res, connected>>
         ELSE /\ outWire' = outWire
              /\ lockHolder' = NoTask
              /\ ReadReturn("WebSocket", NoEvent)
    /\ UNCHANGED <<closed, polls, inbound, response, stream, events, ctx, op,
                   closeOk, endedAt, since>>

\* the pong is written and the guard dropped; the while loop goes on to
\* the next receiver.next().await
PongWrite ==
    /\ pc[SessionTask] = "pong_write"
    /\ lockHolder' = NoTask
    /\ msg' = [msg EXCEPT ![SessionTask] = "none"]
    /\ \E ok \in BOOLEAN :
         IF ok
         THEN /\ outWire' = Append(outWire, PongMessage(msg[SessionTask]))
              /\ pc' = [pc EXCEPT ![SessionTask] = "rne_read"]
              /\ UNCHANGED <<pending, delivered, res, connected>>
         ELSE /\ outWire' = outWire
              /\ ReadReturn("WebSocket", NoEvent)
    /\ UNCHANGED <<closed, polls, inbound, response, stream, events, ctx, op,
                   closeOk, endedAt, since>>

\* ------------------------------------------------------------------------
\* send_message_internal
\* ------------------------------------------------------------------------
\* mutant of SendStart: the closed flag is not consulted
SendStartUnchecked(t, m) ==
    /\ pc[t] = "idle"
    /\ connected = "Ok"
    /\ Started(t, "send")
    /\ Len(outWire) < MaxOut
    /\ res' = [res EXCEPT ![t] = "none"]
    /\ msg' = [msg EXCEPT ![t] = m]
    /\ pc' = [pc EXCEPT ![t] = "send_lock"]
    /\ UNCHANGED <<closed, pending, lockHolder, outWire, polls, inbound,
                   response, stream, events, delivered, ctx, connected,
                   closeOk, endedAt>>

\* the closed check and the serialization, up to sender.lock().await
SendStart(t, m) ==
    /\ pc[t] = "idle"
    /\ connected = "Ok"
    /\ Started(t, "send")
    /\ IF ClosedLoad
       THEN /\ res' = [res EXCEPT ![t] = "ConnectionClosed"]
            /\ UNCHANGED <<pc, msg>>
       ELSE /\ Len(outWire) < MaxOut
            /\ res' = [res EXCEPT ![t] = "none"]
            /\ msg' = [msg EXCEPT ![t] = m]
            /\ pc' = [pc EXCEPT ![t] = "send_lock"]
    /\ UNCHANGED <<closed, pending, lockHolder, outWire, polls, inbound,
                   response, stream, events, delivered, ctx, connected,
                   closeOk, endedAt>>

SendLock(t) ==
    /\ Acquire(t, "send_lock", "send_write")
    /\ UNCHANGED <<closed, pending, outWire, polls, inbound, response, stream,
                   events, delivered, res, msg, ctx, connected, op, closeOk,
                   endedAt, since>>

\* mutant of SendWrite: a failed write returns with the guard still held
SendWriteKeepsGuard(t) ==
    /\ pc[t] = "send_write"
    /\ pc' = [pc EXCEPT ![t] = "idle"]
    /\ msg' = [msg EXCEPT ![t] = "none"]
    /\ \E ok \in BOOLEAN :
         IF ok
         THEN /\ outWire' = Append(outWire, Frame("client", "json"))
              /\ res' = [res EXCEPT ![t] = "Ok"]
              /\ lockHolder' = NoTask
         ELSE /\ outWire' = outWire
              /\ res' = [res EXCEPT ![t] = "WebSocket"]
              /\ lockHolder' = lockHolder
    /\ UNCHANGED <<closed, pending, polls, inbound, response, stream, events,
                   delivered, ctx, connected, op, closeOk, endedAt, since>>

\* sink.send(Message::Text(payload)).await, then the guard is dropped
SendWrite(t) ==
    /\ pc[t] = "send_write"
    /\ lockHolder' = NoTask
    /\ pc' = [pc EXCEPT ![t] = "idle"]
    /\ msg' = [msg EXCEPT ![t] = "none"]
    /\ \E ok \in BOOLEAN :
         IF ok
         THEN /\ outWire' = Append(outWire, Frame("client", "json"))
              /\ res' = [res EXCEPT ![t] = "Ok"]
         ELSE /\ outWire' = outWire
              /\ res' = [res EXCEPT ![t] = "WebSocket"]
    /\ UNCHANGED <<closed, pending, polls, inbound, response, stream, events,
                   delivered, ctx, connected, op, closeOk, endedAt, since>>

\* GeminiSession::send_message and the wrappers over it
SessionSend == \E m \in ClientMessageKinds : SendStart(SessionTask, m)

\* GeminiSender::send_message and the wrappers over it
SenderSend(h) == \E m \in ClientMessageKinds : SendStart(h, m)

\* ------------------------------------------------------------------------
\* close
\* ------------------------------------------------------------------------
CloseStart(t) ==
    /\ pc[t] = "idle"
    /\ connected = "Ok"
    /\ Started(t, "close")
    /\ IF ClosedLoad
       THEN /\ res' = [res EXCEPT ![t] = "Ok"]
            /\ closeOk' = TRUE
            /\ pc' = pc
       ELSE /\ Len(outWire) < MaxOut
            /\ res' = [res EXCEPT ![t] = "none"]
            /\ closeOk' = closeOk
            /\ pc' = [pc EXCEPT ![t] = "close_lock"]
    /\ UNCHANGED <<closed, pending, lockHolder, outWire, polls, inbound,
                   response, stream, events, delivered, msg, ctx, connected,
                   endedAt>>

CloseLock(t) ==
    /\ Acquire(t, "close_lock", "close_write")
    /\ UNCHANGED <<closed, pending, outWire, polls, inbound, response, stream,
                   events, delivered, res, msg, ctx, connected, op, closeOk,
                   endedAt, since>>

\* mutant of CloseWrite: a failed write of the close frame clears the flag
CloseWriteFailureClears(t) ==
    /\ pc[t] = "close_write"
    /\ lockHolder' = NoTask
    /\ \E ok \in BOOLEAN :
         IF ok
         THEN /\ outWire' = Append(outWire, Frame("close", "none"))
              /\ pc' = [pc EXCEPT ![t] = "close_store"]
              /\ res' = res
              /\ closed' = closed
         ELSE /\ outWire' = outWire
              /\ pc' = [pc EXCEPT ![t] = "idle"]
              /\ res' = [res EXCEPT ![t] = "WebSocket"]
              /\ closed' = FALSE
    /\ UNCHANGED <<pending, polls, inbound, response, stream, events,
                   delivered, msg, ctx, connected, op, closeOk, endedAt,
                   since>>

\* mutant of CloseWrite: the flag is stored whether or not the write
\* succeeded
CloseWriteFailureStores(t) ==
    /\ pc[t] = "close_write"
    /\ lockHolder' = NoTask
    /\ \E ok \in BOOLEAN :
         IF ok
         THEN /\ outWire' = Append(outWire, Frame("close", "none"))
              /\ pc' = [pc EXCEPT ![t] = "close_store"]
              /\ res' = res
              /\ closed' = closed
         ELSE /\ outWire' = outWire
              /\ pc' = [pc EXCEPT ![t] = "idle"]
              /\ res' = [res EXCEPT ![t] = "WebSocket"]
              /\ closed' = TRUE
    /\ UNCHANGED <<pending, polls, inbound, response, stream, events,
                   delivered, msg, ctx, connected, op, closeOk, endedAt,
                   since>>

\* sender.send(Message::Close(None)).await, then the guard is dropped
CloseWrite(t) ==
    /\ pc[t] = "close_write"
    /\ lockHolder' = NoTask
    /\ \E ok \in BOOLEAN :
         IF ok
         THEN /\ outWire' = Append(outWire, Frame("close", "none"))
              /\ pc' = [pc EXCEPT ![t] = "close_store"]
              /\ res' = res
         ELSE /\ outWire' = outWire
              /\ pc' = [pc EXCEPT ![t] = "idle"]
              /\ res' = [res EXCEPT ![t] = "WebSocket"]
    /\ UNCHANGED <<closed, pending, polls, inbound, response, stream, events,
                   delivered, msg, ctx, connected, op, closeOk, endedAt,
                   since>>

\* mutant of CloseStore: close returns Ok without setting the flag
CloseStoreForgets(t) ==
    /\ pc[t] = "close_store"
    /\ closeOk' = TRUE
    /\ res' = [res EXCEPT ![t] = "Ok"]
    /\ pc' = [pc EXCEPT ![t] = "idle"]
    /\ UNCHANGED <<closed, pending, lockHolder, outWire, polls, inbound,
                   response, stream, events, delivered, msg, ctx, connected,
                   op, endedAt, since>>

\* self.closed.store(true, Ordering::SeqCst); Ok(())
CloseStore(t) ==
    /\ pc[t] = "close_store"
    /\ closed' = TRUE
    /\ closeOk' = TRUE
    /\ res' = [res EXCEPT ![t] = "Ok"]
    /\ pc' = [pc EXCEPT ![t] = "idle"]
    /\ UNCHANGED <<pending, lockHolder, outWire, polls, inbound, response,
                   stream, events, delivered, msg, ctx, connected, op,
                   endedAt, since>>

\* GeminiSession::close
SessionClose == CloseStart(SessionTask)

\* GeminiSender::close
SenderClose(h) == CloseStart(h)

\* ------------------------------------------------------------------------
\* FrameSource (rust/core/src/capture.rs)
\* ------------------------------------------------------------------------
Consumers == {"c1", "c2"}

\* what capturer.get_next_frame() yields: a BGRA video frame, a video frame
\* in another format, an audio frame or an error
SourceItems == {"BGRA", "OtherVideo", "Audio", "Err"}

\* mutant of IsFrameData: a video frame of any format is cached
IsFrameDataAnyVideo(item) == item \in {"BGRA", "OtherVideo"}

\* frame_data of the producer's match: Some for a BGRA video frame only
IsFrameData(item) == item = "BGRA"

\* mutant of StoreFrame: a new frame queues behind the cached one
StoreFrameQueued(slot, f) == Append(slot, f)

\* *last_frame_clone.write() = Some(frame_data)
StoreFrame(slot, f) == <<f>>

\* mutant of TakeFrame: the frame is cloned out and stays in the slot
TakeFrameKeeps(slot) == [frame |-> Head(slot), rest |-> slot]

\* guard.take(): the frame handed out and what the slot holds afterwards
TakeFrame(slot) == [frame |-> Head(slot), rest |-> <<>>]

\* tokio Notify::notify_one: wakes the task that registered first, or
\* stores a permit when no task is registered
notify_one(ws, p) ==
    IF ws = <<>>
    THEN [permit |-> TRUE, waiters |-> ws, woken |-> {}]
    ELSE [permit |-> p, waiters |-> Tail(ws), woken |-> {Head(ws)}]

\* tokio Notify::notify_waiters: wakes every registered task and stores
\* no permit
notify_waiters(ws, p) ==
    [permit |-> p, waiters |-> <<>>,
     woken |-> {ws[i] : i \in 1..Len(ws)}]

\* frame_ready_clone.notify_one()
FrameReadySignal(ws, p) == notify_one(ws, p)

NoFrame == 0

\* what get_next_frame has handed to its caller: nothing while the call is
\* in progress, else Ok(frame)
Result(result, frame, newest, atStart) ==
    [result |-> result, frame |-> frame, newest |-> newest,
     atStart |-> atStart]

CaptureInit ==
    /\ last_frame = <<>>
    /\ permit = FALSE
    /\ waiters = <<>>
    /\ ppc = "next"
    /\ yielded = 0
    /\ last_item = "none"
    /\ produced = 0
    /\ cpc = [c \in Consumers |-> "idle"]
    /\ got = [c \in Consumers |-> Result("none", NoFrame, 0, 0)]
    /\ returned = <<>>

\* one turn of the producer loop up to the store
ProducerNext ==
    /\ ppc = "next"
    /\ yielded < MaxFrames
    /\ yielded' = yielded + 1
    /\ \E item \in SourceItems :
         /\ last_item' = item
         /\ IF item = "Err"
            THEN /\ ppc' = "exited"
                 /\ UNCHANGED <<last_frame, produced>>
            ELSE IF IsFrameData(item)
            THEN /\ last_frame' = StoreFrame(last_frame, produced + 1)
                 /\ produced' = produced + 1
                 /\ ppc' = "notify"
            ELSE UNCHANGED <<last_frame, produced, ppc>>
    /\ UNCHANGED <<permit, waiters, cpc, got, returned>>

ProducerNotify ==
    /\ ppc = "notify"
    /\ LET n == FrameReadySignal(waiters, permit)
       IN /\ permit' = n.permit
          /\ waiters' = n.waiters
          /\ cpc' = [c \in Consumers |->
                       IF c \in n.woken THEN "take" ELSE cpc[c]]
    /\ ppc' = "next"
    /\ UNCHANGED <<last_frame, yielded, last_item, produced, got, returned>>

\* a task calls get_next_frame
NextFrameCall(c) ==
    /\ cpc[c] = "idle"
    /\ cpc' = [cpc EXCEPT ![c] = "take"]
    /\ got' = [got EXCEPT ![c] = Result("none", NoFrame, 0, produced)]
    /\ UNCHANGED <<last_frame, permit, waiters, ppc, yielded, last_item,
                   produced, returned>>

\* mutant of TryTake: an empty slot is reported once the source has closed
TryTakeOrFail(c) ==
    /\ cpc[c] = "take"
    /\ IF last_frame # <<>>
       THEN /\ last_frame' = TakeFrame(last_frame).rest
            /\ got' = [got EXCEPT ![c] =
                         Result("Ok", TakeFrame(last_frame).frame, produced,
                                got[c].atStart)]
            /\ returned' = Append(returned, TakeFrame(last_frame).frame)
            /\ cpc' = [cpc EXCEPT ![c] = "idle"]
       ELSE IF ppc = "exited"
       THEN /\ got' = [got EXCEPT ![c] =
                         Result("NoFrameAvailable", NoFrame, produced,
                                got[c].atStart)]
            /\ cpc' = [cpc EXCEPT ![c] = "idle"]
            /\ UNCHANGED <<last_frame, returned>>
       ELSE /\ cpc' = [cpc EXCEPT ![c] = "poll"]
            /\ UNCHANGED <<last_frame, got, returned>>
    /\ UNCHANGED <<permit, waiters, ppc, yielded, last_item, produced>>

\* the block under last_frame.write(): take the frame or leave empty-handed
TryTake(c) ==
    /\ cpc[c] = "take"
    /\ IF last_frame # <<>>
       THEN /\ last_frame' = TakeFrame(last_frame).rest
            /\ got' = [got EXCEPT ![c] =
                         Result("Ok", TakeFrame(last_frame).frame, produced,
                                got[c].atStart)]
            /\ returned' = Append(returned, TakeFrame(last_frame).frame)
            /\ cpc' = [cpc EXCEPT ![c] = "idle"]
       ELSE /\ cpc' = [cpc EXCEPT ![c] = "poll"]
            /\ UNCHANGED <<last_frame, got, returned>>
    /\ UNCHANGED <<permit, waiters, ppc, yielded, last_item, produced>>

\* self.frame_ready.notified().await: a stored permit is consumed and the
\* loop retries, otherwise the task registers and waits
AwaitNotified(c) ==
    /\ cpc[c] = "poll"
    /\ IF permit
       THEN /\ permit' = FALSE
            /\ cpc' = [cpc EXCEPT ![c] = "take"]
            /\ waiters' = waiters
       ELSE /\ permit' = permit
            /\ cpc' = [cpc EXCEPT ![c] = "waiting"]
            /\ waiters' = Append(waiters, c)
    /\ UNCHANGED <<last_frame, ppc, yielded, last_item, produced, got,
                   returned>>

\* ------------------------------------------------------------------------
\* parse_server_event applied to a message body
\* ------------------------------------------------------------------------
\* no message body is being classified
ClassifierIdle ==
    /\ body = NoValue
    /\ parsed = NoParse

\* a decoded message body is about to be classified
ClassifierInput ==
    /\ body \in JsonValues
    /\ parsed = NoParse

\* let event = parse_server_event(value)
Classify ==
    /\ parsed = NoParse
    /\ body \in JsonValues
    /\ parsed' = parse_server_event(body)
    /\ body' = body

\* ------------------------------------------------------------------------
\* Client messages and their JSON form (serde derive attributes)
\* ------------------------------------------------------------------------
\* largest number of parts in a turn
MaxParts == 2

\* Option<T>: None is the empty sequence, Some(x) the sequence <<x>>
None == <<>>
Some(x) == <<x>>

\* A JSON value: t is "string", "bool", "array" or "object"; s, b, a, o
\* hold the string, the boolean, the elements or the members ([k, v]).
JStr(str) == [t |-> "string", s |-> str, b |-> FALSE, a |-> <<>>, o |-> {}]
JBool(bool) == [t |-> "bool", s |-> "", b |-> bool, a |-> <<>>, o |-> {}]
JArr(elems) == [t |-> "array", s |-> "", b |-> FALSE, a |-> elems, o |-> {}]
JObj(members) ==
    [t |-> "object", s |-> "", b |-> FALSE, a |-> <<>>, o |-> members]

Member(name, val) == [k |-> name, v |-> val]

HasKey(obj, name) == \E m \in obj.o : m.k = name

Get(obj, name) == (CHOOSE m \in obj.o : m.k = name).v

\* the top-level keys of a JSON document
TopLevelKeys(doc) == {m.k : m \in doc.o}

\* Part::Text { text } and Part::Json(value)
NoJson == JBool(FALSE)
PartText(str) == [variant |-> "Text", text |-> str, json |-> NoJson]
PartJson(val) == [variant |-> "Json", text |-> "", json |-> val]

Content(role, parts) == [role |-> role, parts |-> parts]

ClientContent(turns, turn_complete) ==
    [turns |-> turns, turn_complete |-> turn_complete]

\* Part, #[serde(untagged)]: a Text part is an object with the one member
\* text, a Json part is its value as it is
ser_part(part) ==
    IF part.variant = "Text"
    THEN JObj({Member("text", JStr(part.text))})
    ELSE part.json

\* Content, rename_all = "camelCase": role is skipped when None, parts
\* when empty
ser_content(c) ==
    JObj((IF c.role # None
          THEN {Member("role", JStr(c.role[1]))} ELSE {})
         \cup
         (IF c.parts # <<>>
          THEN {Member("parts",
                       JArr([i \in 1..Len(c.parts) |-> ser_part(c.parts[i])]))}
          ELSE {}))

\* rename_all = "camelCase" applied to a field of ClientContent
FieldName(field) ==
    IF field = "turn_complete" THEN "turnComplete" ELSE field

\* ClientContent, rename_all = "camelCase": turns is skipped when empty,
\* turn_complete when None
ser_client_content(cc) ==
    JObj((IF cc.turns # <<>>
          THEN {Member("turns",
                       JArr([i \in 1..Len(cc.turns) |->
                               ser_content(cc.turns[i])]))}
          ELSE {})
         \cup
         (IF cc.turn_complete # None
          THEN {Member(FieldName("turn_complete"),
                       JBool(cc.turn_complete[1]))}
          ELSE {}))

\* the result of a deserialization
DeOk(val) == [ok |-> TRUE, val |-> <<val>>]
DeErr == [ok |-> FALSE, val |-> <<>>]

\* mutant of de_part: the Json variant is tried before the Text variant
de_part_json_first(j) == PartJson(j)

\* Part, #[serde(untagged)]: the first variant that deserializes wins;
\* Text needs a map with a string member text, Json takes any value
de_part(j) ==
    IF j.t = "object" /\ HasKey(j, "text") /\ Get(j, "text").t = "string"
    THEN PartText(Get(j, "text").s)
    ELSE PartJson(j)

\* Content: a missing role is None, missing parts are the default (empty)
de_content(j) ==
    IF j.t # "object" THEN DeErr
    ELSE IF HasKey(j, "role") /\ Get(j, "role").t # "string" THEN DeErr
    ELSE IF HasKey(j, "parts") /\ Get(j, "parts").t # "array" THEN DeErr
    ELSE DeOk(Content(
           IF HasKey(j, "role") THEN Some(Get(j, "role").s) ELSE None,
           IF HasKey(j, "parts")
           THEN [i \in 1..Len(Get(j, "parts").a) |->
                   de_part(Get(j, "parts").a[i])]
           ELSE <<>>))

\* ClientContent: missing turns are the default (empty), a missing
\* turnComplete is None
de_client_content(j) ==
    IF j.t # "object" THEN DeErr
    ELSE IF HasKey(j, "turns") /\ Get(j, "turns").t # "array" THEN DeErr
    ELSE IF HasKey(j, "turns")
            /\ \E i \in 1..Len(Get(j, "turns").a) :
                 ~de_content(Get(j, "turns").a[i]).ok
    THEN DeErr
    ELSE IF HasKey(j, FieldName("turn_complete"))
            /\ Get(j, FieldName("turn_complete")).t # "bool"
    THEN DeErr
    ELSE DeOk(ClientContent(
           IF HasKey(j, "turns")
           THEN [i \in 1..Len(Get(j, "turns").a) |->
                   de_content(Get(j, "turns").a[i]).val[1]]
           ELSE <<>>,
           IF HasKey(j, FieldName("turn_complete"))
           THEN Some(Get(j, FieldName("turn_complete")).b)
           ELSE None))

\* A ClientMessage: its variant and the payload the variant wraps (the
\* ClientContent of a ClientContent message, the text field of a
\* RealtimeInput; the other fields are left at their defaults)
ClientMessage(variant, cc, str) ==
    [variant |-> variant, client_content |-> cc, text |-> str]

NoContent == ClientContent(<<>>, None)

\* mutant of VariantKey: every variant is written under clientContent
VariantKeyFixed(variant) == "clientContent"

\* #[serde(rename = ...)] of the variants of ClientMessage
VariantKey(variant) ==
    CASE variant = "ClientContent" -> "clientContent"
      [] variant = "RealtimeInput" -> "realtimeInput"
      [] variant = "ToolResponse"  -> "toolResponse"

\* the payload a variant wraps, serialized
ser_payload(m) ==
    CASE m.variant = "ClientContent" -> ser_client_content(m.client_content)
      [] m.variant = "RealtimeInput" ->
           JObj(IF m.text # None
                THEN {Member("text", JStr(m.text[1]))} ELSE {})
      [] m.variant = "ToolResponse"  -> JObj({})

\* ClientMessage, an externally tagged enum: one object whose only member
\* is the payload under the variant's name
ser_client_message(m) == JObj({Member(VariantKey(m.variant), ser_payload(m))})

Texts == {"", "hello"}

\* values a Json part holds: inline image data, and objects with a member
\* named text holding a string or not
JsonPartValues ==
    { JObj({Member("inline_data", JStr("base64"))}),
      JObj({Member("text", JStr("hello"))}),
      JObj({Member("text", JBool(TRUE))}) }

Parts == {PartText(str) : str \in Texts}
         \cup {PartJson(val) : val \in JsonPartValues}

PartLists == UNION {[1..n -> Parts] : n \in 0..MaxParts}

Contents == {Content(role, parts) :
               role \in {None, Some("user")}, parts \in PartLists}

\* a ClientContent with no turn or one turn
ClientContents ==
    {ClientContent(turns, turn_complete) :
       turns \in {<<>>} \cup {<<c>> : c \in Contents},
       turn_complete \in {None, Some(TRUE), Some(FALSE)}}

ClientMessages ==
    {ClientMessage("ClientContent", cc, None) : cc \in ClientContents}
    \cup {ClientMessage("RealtimeInput", NoContent, str) :
            str \in {None} \cup {Some(x) : x \in Texts}}
    \cup {ClientMessage("ToolResponse", NoContent, None)}

NoDocument == JStr("pending")
NotDecoded == [ok |-> FALSE, val |-> <<"pending">>]

\* no message is being serialized
CodecIdle ==
    /\ message = ClientMessage("ToolResponse", NoContent, None)
    /\ encoded = NoDocument
    /\ decoded = NotDecoded

\* a message is about to be serialized
CodecInput ==
    /\ message \in ClientMessages
    /\ encoded = NoDocument
    /\ decoded = NotDecoded

\* serde_json::to_string(&message)
Serialize ==
    /\ encoded = NoDocument
    /\ message \in ClientMessages
    /\ encoded' = ser_client_message(message)
    /\ UNCHANGED <<message, decoded>>

\* the clientContent payload of the document is deserialized into a
\* ClientContent
Deserialize ==
    /\ encoded # NoDocument
    /\ decoded = NotDecoded
    /\ message.variant = "ClientContent"
    /\ decoded' = IF HasKey(encoded, "clientContent")
                  THEN de_client_content(Get(encoded, "clientContent"))
                  ELSE DeErr
    /\ UNCHANGED <<message, encoded>>

\* ------------------------------------------------------------------------
\* OutputProcessor::spawn (rust/core/src/response_printer.rs) and
\* CaptureSession::capture_frames (rust/core/src/capture_session.rs)
\* ------------------------------------------------------------------------
\* the task that owns the CaptureSession takes frames as this consumer
\* and sends through this sender handle
BridgeConsumer == "c1"
BridgeHandle == "h1"

\* the session as connect returns it after the shortest handshake: the
\* setup frame written, SetupComplete the first message read
Connected ==
    /\ closed = FALSE
    /\ pending = <<>>
    /\ lockHolder = NoTask
    /\ outWire = <<Frame("setup", "json")>>
    /\ polls = 1
    /\ inbound = TextOf({"setupComplete"})
    /\ stream = "open"
    /\ events = <<Event("SetupComplete", 1)>>
    /\ delivered = <<>>
    /\ pc = [t \in Tasks |-> "idle"]
    /\ res = [t \in Tasks |-> "none"]
    /\ msg = [t \in Tasks |-> "none"]
    /\ ctx = "connect"
    /\ connected = "Ok"
    /\ response = SWITCHING_PROTOCOLS
    /\ op = [t \in Tasks |-> IF t = SessionTask THEN "connect" ELSE "none"]
    /\ closeOk = FALSE
    /\ endedAt = 0
    /\ since = [t \in Tasks |-> [closeOk |-> FALSE, ended |-> FALSE]]

PipelineInit ==
    /\ loop = "unspawned"
    /\ bpc = "idle"
    /\ count = 0
    /\ index = 0
    /\ logged = "none"
    /\ bres = "none"

\* mutant of LoopArm: the loop also ends on an Error event
LoopArmErrorEnds(r, kind) ==
    CASE r = "Some" /\ kind = "ServerContent" -> "print"
      [] r = "Some" /\ kind = "SetupComplete" -> "ready"
      [] r = "Some" /\ kind = "Error"         -> "break"
      [] r = "Some"                            -> "ignore"
      [] r = "None"                            -> "break"
      [] OTHER                                 -> "break"

\* the arm of the receive loop's match that a result of recv takes: r is
\* "Some" with an event of the given kind, "None", or the name of an error
LoopArm(r, kind) ==
    CASE r = "Some" /\ kind = "ServerContent" -> "print"
      [] r = "Some" /\ kind = "SetupComplete" -> "ready"
      [] r = "Some" /\ kind = "Error"         -> "log"
      [] r = "Some"                            -> "ignore"
      [] r = "None"                            -> "break"
      [] OTHER                                 -> "break"

\* the arm the result of the session task's last recv call takes
LastArm ==
    LoopArm(res[SessionTask],
            IF res[SessionTask] = "Some"
            THEN delivered[Len(delivered)].kind
            ELSE "none")

\* OutputProcessor::spawn: the session moves into the spawned task
Spawn ==
    /\ loop = "unspawned"
    /\ connected = "Ok"
    /\ loop' = "running"
    /\ UNCHANGED <<bpc, count, index, logged, bres>>

\* one turn of the receive loop: the arm for the last result did not
\* break, and session.recv() is called
LoopRecv ==
    /\ loop = "running"
    /\ op[SessionTask] = "recv" => LastArm # "break"
    /\ Recv
    /\ UNCHANGED pipelineVars

\* the arm for the last result breaks out of the loop; the task ends
LoopBreak ==
    /\ loop = "running"
    /\ pc[SessionTask] = "idle"
    /\ op[SessionTask] = "recv"
    /\ LastArm = "break"
    /\ loop' = "stopped"
    /\ UNCHANGED <<bpc, count, index, logged, bres>>

\* mutant of AfterFailure: a failed send ends capture_frames with the error
AfterFailureSendAborts(kind) ==
    IF kind = "send" THEN "return" ELSE "continue"

\* what capture_frames does once a frame failed to encode, to be saved or
\* to be sent: the failure is logged and the for loop goes on
AfterFailure(kind) == "continue"

\* the frame's failure is logged
Failed(kind) ==
    /\ logged' = kind
    /\ IF AfterFailure(kind) = "continue"
       THEN bpc' = "loop" /\ bres' = bres
       ELSE bpc' = "done" /\ bres' = kind

\* capture_frames(count) is called
BridgeCall ==
    /\ bpc = "idle"
    /\ connected = "Ok"
    /\ \E n \in 0..MaxCount : count' = n
    /\ index' = 0
    /\ bpc' = "loop"
    /\ UNCHANGED <<loop, logged, bres>>

\* the head of the for loop: the next get_next_frame call, or Ok(())
BridgeLoop ==
    /\ bpc = "loop"
    /\ IF index < count
       THEN /\ index' = index + 1
            /\ NextFrameCall(BridgeConsumer)
            /\ bpc' = "next_frame"
            /\ bres' = bres
       ELSE /\ bpc' = "done"
            /\ bres' = "Ok"
            /\ UNCHANGED <<index, captureVars>>
    /\ UNCHANGED <<loop, count, logged>>

\* get_next_frame has returned the frame: it is encoded and saved, and
\* send_client_content runs up to its lock().await
BridgeFrame ==
    /\ bpc = "next_frame"
    /\ cpc[BridgeConsumer] = "idle"
    /\ \E step \in {"encode", "save", "send"} :
         IF step # "send"
         THEN /\ Failed(step)
              /\ UNCHANGED sessionVars
         ELSE /\ SendStart(BridgeHandle, "clientContent")
              /\ IF ClosedLoad
                 THEN Failed("send")
                 ELSE bpc' = "sending" /\ UNCHANGED <<logged, bres>>
    /\ UNCHANGED <<loop, count, index>>

\* send_client_content has returned
BridgeSent ==
    /\ bpc = "sending"
    /\ pc[BridgeHandle] = "idle"
    /\ IF res[BridgeHandle] = "Ok"
       THEN logged' = "sent" /\ bpc' = "loop" /\ bres' = bres
       ELSE Failed("send")
    /\ UNCHANGED <<loop, count, index>>

\* main, after capture_frames: sender.close()
MainClose ==
    /\ bpc = "done"
    /\ SenderClose(BridgeHandle)
    /\ UNCHANGED pipelineVars

\* ------------------------------------------------------------------------
\* Specifications
\* ------------------------------------------------------------------------
vars == <<sessionVars, captureVars, classifierVars, codecVars,
          pipelineVars>>

\* what an action of the session engine leaves alone
exceptSession == <<captureVars, classifierVars, codecVars, pipelineVars>>

\* what an action of the frame source leaves alone
exceptCapture == <<sessionVars, classifierVars, codecVars, pipelineVars>>

\* what a step of the receive loop or of capture_frames alone leaves alone
exceptPipeline == <<sessionVars, captureVars, classifierVars, codecVars>>

\* what a call of the classifier leaves alone
exceptClassifier == <<sessionVars, captureVars, codecVars, pipelineVars>>

Init ==
    SessionInit /\ CaptureInit /\ ClassifierIdle /\ CodecIdle /\ PipelineInit

SessionNext ==
    \/ Connect /\ UNCHANGED exceptSession
    \/ SetupLock /\ UNCHANGED exceptSession
    \/ SetupWrite /\ UNCHANGED exceptSession
    \/ Recv /\ UNCHANGED exceptSession
    \/ ReadItem /\ UNCHANGED exceptSession
    \/ PongLock /\ UNCHANGED exceptSession
    \/ PongWrite /\ UNCHANGED exceptSession
    \/ SessionSend /\ UNCHANGED exceptSession
    \/ SessionClose /\ UNCHANGED exceptSession
    \/ \E h \in Handles : SenderSend(h) /\ UNCHANGED exceptSession
    \/ \E h \in Handles : SenderClose(h) /\ UNCHANGED exceptSession
    \/ \E t \in Tasks : SendLock(t) /\ UNCHANGED exceptSession
    \/ \E t \in Tasks : SendWrite(t) /\ UNCHANGED exceptSession
    \/ \E t \in Tasks : CloseLock(t) /\ UNCHANGED exceptSession
    \/ \E t \in Tasks : CloseWrite(t) /\ UNCHANGED exceptSession
    \/ \E t \in Tasks : CloseStore(t) /\ UNCHANGED exceptSession

CaptureNext ==
    \/ ProducerNext /\ UNCHANGED exceptCapture
    \/ ProducerNotify /\ UNCHANGED exceptCapture
    \/ \E c \in Consumers : NextFrameCall(c) /\ UNCHANGED exceptCapture
    \/ \E c \in Consumers : TryTake(c) /\ UNCHANGED exceptCapture
    \/ \E c \in Consumers : AwaitNotified(c) /\ UNCHANGED exceptCapture

SpecSession == Init /\ [][SessionNext]_vars

SpecCapture == Init /\ [][CaptureNext]_vars

\* the producer thread, once it has stored a frame, gets to signal it, and
\* a task inside get_next_frame that can take its next step gets to take
\* it; the capture source need not yield and callers need not call
CaptureFairness ==
    /\ WF_vars(ProducerNotify /\ UNCHANGED exceptCapture)
    /\ \A c \in Consumers :
         /\ WF_vars(TryTake(c) /\ UNCHANGED exceptCapture)
         /\ WF_vars(AwaitNotified(c) /\ UNCHANGED exceptCapture)

SpecCaptureFair == Init /\ [][CaptureNext]_vars /\ CaptureFairness

ClassifierNext ==
    \/ Classify /\ UNCHANGED exceptClassifier

InitClassifier ==
    /\ SessionInit /\ CaptureInit /\ ClassifierInput /\ CodecIdle
    /\ PipelineInit

SpecClassifier == InitClassifier /\ [][ClassifierNext]_vars

\* what a call of the serializer leaves alone
exceptCodec == <<sessionVars, captureVars, classifierVars, pipelineVars>>

CodecNext ==
    \/ Serialize /\ UNCHANGED exceptCodec
    \/ Deserialize /\ UNCHANGED exceptCodec

InitCodec ==
    SessionInit /\ CaptureInit /\ ClassifierIdle /\ CodecInput /\ PipelineInit

SpecCodec == InitCodec /\ [][CodecNext]_vars

\* connect, then the receive loop in its task while the task holding the
\* sender handle sends and closes
ReceiverNext ==
    \/ Connect /\ UNCHANGED exceptSession
    \/ SetupLock /\ UNCHANGED exceptSession
    \/ SetupWrite /\ UNCHANGED exceptSession
    \/ Spawn /\ UNCHANGED exceptPipeline
    \/ LoopRecv /\ UNCHANGED <<captureVars, classifierVars, codecVars>>
    \/ LoopBreak /\ UNCHANGED exceptPipeline
    \/ ReadItem /\ UNCHANGED exceptSession
    \/ PongLock /\ UNCHANGED exceptSession
    \/ PongWrite /\ UNCHANGED exceptSession
    \/ \E h \in Handles : SenderSend(h) /\ UNCHANGED exceptSession
    \/ \E h \in Handles : SendLock(h) /\ UNCHANGED exceptSession
    \/ \E h \in Handles : SendWrite(h) /\ UNCHANGED exceptSession
    \/ \E h \in Handles : SenderClose(h) /\ UNCHANGED exceptSession
    \/ \E h \in Handles : CloseLock(h) /\ UNCHANGED exceptSession
    \/ \E h \in Handles : CloseWrite(h) /\ UNCHANGED exceptSession
    \/ \E h \in Handles : CloseStore(h) /\ UNCHANGED exceptSession

SpecReceiver == Init /\ [][ReceiverNext]_vars

\* tokio's Mutex hands the lock to its waiters in the order they asked, so
\* a task waiting for it is not passed over for ever (during connect no
\* other task has a handle yet, so nothing competes with the setup); a
\* write to the transport completes, with Ok or with an error; a task
\* that has written its close frame goes on to store the flag
LockFairness ==
    /\ WF_vars(SetupLock /\ UNCHANGED exceptSession)
    /\ SF_vars(PongLock /\ UNCHANGED exceptSession)
    /\ WF_vars(SetupWrite /\ UNCHANGED exceptSession)
    /\ WF_vars(PongWrite /\ UNCHANGED exceptSession)
    /\ \A h \in Handles :
         /\ SF_vars(SendLock(h) /\ UNCHANGED exceptSession)
         /\ SF_vars(CloseLock(h) /\ UNCHANGED exceptSession)
         /\ WF_vars(SendWrite(h) /\ UNCHANGED exceptSession)
         /\ WF_vars(CloseWrite(h) /\ UNCHANGED exceptSession)
         /\ WF_vars(CloseStore(h) /\ UNCHANGED exceptSession)

SpecReceiverFair == Init /\ [][ReceiverNext]_vars /\ LockFairness

\* the producer thread and the task that calls capture_frames and then
\* closes through its sender handle, while the owner of the session may
\* close it at any time
BridgeNext ==
    \/ ProducerNext /\ UNCHANGED exceptCapture
    \/ ProducerNotify /\ UNCHANGED exceptCapture
    \/ TryTake(BridgeConsumer) /\ UNCHANGED exceptCapture
    \/ AwaitNotified(BridgeConsumer) /\ UNCHANGED exceptCapture
    \/ BridgeCall /\ UNCHANGED exceptPipeline
    \/ BridgeLoop /\ UNCHANGED <<sessionVars, classifierVars, codecVars>>
    \/ BridgeFrame /\ UNCHANGED <<captureVars, classifierVars, codecVars>>
    \/ BridgeSent /\ UNCHANGED exceptPipeline
    \/ SendLock(BridgeHandle) /\ UNCHANGED exceptSession
    \/ SendWrite(BridgeHandle) /\ UNCHANGED exceptSession
    \/ MainClose /\ UNCHANGED <<captureVars, classifierVars, codecVars>>
    \/ SessionClose /\ UNCHANGED exceptSession
    \/ \E t \in Tasks : CloseLock(t) /\ UNCHANGED exceptSession
    \/ \E t \in Tasks : CloseWrite(t) /\ UNCHANGED exceptSession
    \/ \E t \in Tasks : CloseStore(t) /\ UNCHANGED exceptSession

InitBridge ==
    Connected /\ CaptureInit /\ ClassifierIdle /\ CodecIdle /\ PipelineInit

SpecBridge == InitBridge /\ [][BridgeNext]_vars

\* ------------------------------------------------------------------------
\* Properties
\* ------------------------------------------------------------------------
\* position in es of the SetupComplete that ended the handshake
AckIndex(es) ==
    CHOOSE i \in 1..Len(es) :
        /\ es[i].kind = "SetupComplete"
        /\ \A j \in 1..(i - 1) : es[j].kind # "SetupComplete"

\* es without the SetupComplete that ended the handshake
WithoutAck(es) ==
    SubSeq(es, 1, AckIndex(es) - 1) \o SubSeq(es, AckIndex(es) + 1, Len(es))

\* pcs at which the session task is inside read_next_event's wire loop
ReadPcs == {"rne_read", "pong_lock", "pong_write"}

\* C1: once connect has succeeded, the events recv has returned followed by
\* those still pending are exactly the classified events in arrival order,
\* less the SetupComplete that ended the handshake - so the events buffered
\* during the handshake come out in arrival order and before every later
\* event - and recv is in its wire read only while the pending queue is empty.
C1_PendingDrainedInOrder ==
    /\ \A i, j \in 1..Len(events) : i < j => events[i].seq < events[j].seq
    /\ connected = "Ok" => delivered \o pending = WithoutAck(events)
    /\ (ctx = "recv" /\ pc[SessionTask] \in ReadPcs) => pending = <<>>

\* C1 witness: recv has returned an event that arrived before the
\* SetupComplete and, after it, one that arrived after the SetupComplete
C1_Witness ==
    /\ connected = "Ok"
    /\ \E i, j \in 1..Len(delivered) :
         /\ i < j
         /\ delivered[i].seq < events[AckIndex(events)].seq
         /\ events[AckIndex(events)].seq < delivered[j].seq

\* C2: the cache never holds more than one frame, and a frame returned by
\* get_next_frame is the newest frame produced when it was taken, hence not
\* older than the newest frame produced before the call began.
C2_LatestFrameWins ==
    /\ Len(last_frame) <= 1
    /\ \A c \in Consumers :
         got[c].frame # NoFrame =>
           /\ got[c].frame = got[c].newest
           /\ got[c].frame >= got[c].atStart

\* C2 witness: the first frame get_next_frame returned is the second frame
\* produced: the first one was replaced while it was still cached
C2_Witness ==
    /\ returned # <<>>
    /\ returned[1] = 2
    /\ \E c \in Consumers : got[c].frame = 2

\* C3: at most one task is writing to the outbound half, and the task that
\* writes is the one holding the lock.
C3_WritesExclusive ==
    /\ Cardinality({t \in Tasks : pc[t] \in WritePcs}) <= 1
    /\ \A t \in Tasks : pc[t] \in WritePcs => lockHolder = t

\* C3 witness: the receive loop is writing a pong while a sender handle,
\* its closed check passed, waits for the lock
C3_Witness ==
    /\ pc[SessionTask] = "pong_write"
    /\ \E h \in Handles : pc[h] \in {"send_lock", "close_lock"}

\* number of close frames written to the outbound half
CloseFrames == Len(SelectSeq(outWire, LAMBDA f : f.kind = "close"))

\* C4: a close call that starts after a close call has returned Ok returns
\* Ok without going for the outbound lock or writing: it adds no close
\* frame to those already sent.
C4_SecondCloseWritesNothing ==
    \A t \in Tasks :
        (op[t] = "close" /\ since[t].closeOk) =>
            /\ pc[t] = "idle"
            /\ res[t] = "Ok"
            /\ lockHolder # t

\* C4 witness: a close call made after a close that wrote its frame and
\* returned Ok has returned Ok, and one close frame is on the wire
C4_Witness ==
    /\ CloseFrames = 1
    /\ \E t \in Tasks :
         op[t] = "close" /\ since[t].closeOk /\ res[t] = "Ok"

\* C4 as claimed: after a second close call that followed a successful one,
\* exactly one close frame has been sent.
C4_ExactlyOneCloseFrame ==
    \A t \in Tasks :
        (op[t] = "close" /\ since[t].closeOk) =>
            /\ pc[t] = "idle"
            /\ res[t] = "Ok"
            /\ CloseFrames = 1

\* C5: a send that starts after a close call has returned Ok fails with
\* ConnectionClosed without going for the outbound lock or writing.
C5_SendAfterCloseRejected ==
    \A t \in Tasks :
        (op[t] = "send" /\ since[t].closeOk) =>
            /\ pc[t] = "idle"
            /\ res[t] = "ConnectionClosed"
            /\ lockHolder # t

\* C5 witness: a close frame is on the wire, close has returned Ok and a
\* send started on a sender handle afterwards has failed
C5_Witness ==
    /\ CloseFrames = 1
    /\ \E h \in Handles :
         op[h] = "send" /\ since[h].closeOk /\ res[h] = "ConnectionClosed"

\* C6: once a recv call has observed the end of the inbound stream, closed
\* is set, the inbound half is not read again, and every recv call that
\* starts afterwards returns None at once.
C6_RecvAfterEndOfStream ==
    /\ endedAt > 0 => (closed /\ polls = endedAt)
    /\ (op[SessionTask] = "recv" /\ since[SessionTask].ended) =>
           /\ pc[SessionTask] = "idle"
           /\ res[SessionTask] = "None"

\* C6 witness: a recv call that started after the end of the stream was
\* observed has returned None
C6_Witness ==
    /\ endedAt > 0
    /\ op[SessionTask] = "recv"
    /\ since[SessionTask].ended
    /\ res[SessionTask] = "None"

\* C7: a wake is never lost: while a frame is cached and a get_next_frame
\* call has found the slot empty (it is about to wait, or waits), a permit
\* is stored in the Notify, or a woken task is on its way to the slot, or
\* the producer is about to signal.
C7_NoLostWake ==
    (last_frame # <<>> /\ \E c \in Consumers : cpc[c] \in {"poll", "waiting"})
        => \/ permit
           \/ ppc = "notify"
           \/ \E c \in Consumers : cpc[c] = "take"

\* C7 witness: the only task in get_next_frame found the slot empty and has
\* not begun to wait; the producer has since stored a frame and signalled
C7_Witness ==
    \E c \in Consumers :
        /\ cpc[c] = "poll"
        /\ \A d \in Consumers \ {c} : cpc[d] = "idle"
        /\ last_frame # <<>>
        /\ ppc = "next"
        /\ permit

\* C8: the first frame on the outbound wire is the setup frame and it is
\* the only setup frame; a client message is on the wire, or being sent,
\* only after connect has observed SetupComplete and returned the session.
C8_SetupFirst ==
    /\ \A i \in 1..Len(outWire) : (outWire[i].kind = "setup") <=> (i = 1)
    /\ (\E i \in 1..Len(outWire) : outWire[i].kind = "client") =>
          /\ connected = "Ok"
          /\ \E j \in 1..Len(events) : events[j].kind = "SetupComplete"
    /\ \A t \in Tasks :
          pc[t] \in {"send_lock", "send_write"} => connected = "Ok"

\* C8 witness: the setup frame, then a client message, are on the wire
C8_Witness ==
    /\ Len(outWire) >= 2
    /\ outWire[1].kind = "setup"
    /\ outWire[2].kind = "client"

\* an Error event was classified before any SetupComplete
HandshakeError ==
    \E i \in 1..Len(events) :
        /\ events[i].kind = "Error"
        /\ \A j \in 1..(i - 1) : events[j].kind # "SetupComplete"

\* C9: an Error event classified while connect awaits SetupComplete makes
\* connect fail with ServerError: no session exists (nothing is received,
\* no handle is used) and the Error event is not in the pending queue.
C9_ErrorRejectsSetup ==
    HandshakeError =>
        /\ connected = "ServerError"
        /\ pc[SessionTask] = "failed"
        /\ \A j \in 1..Len(pending) : pending[j].kind # "Error"
        /\ delivered = <<>>
        /\ \A h \in Handles : op[h] = "none"

\* C9 witness: connect failed with ServerError after it had buffered an
\* earlier event
C9_Witness ==
    /\ connected = "ServerError"
    /\ pending # <<>>
    /\ events[Len(events)].kind = "Error"

\* C10: when the inbound half comes to its end before SetupComplete is
\* observed, connect fails and returns no session: with ServerClosed when
\* a close frame carrying code and reason arrived, with SetupNotAcknowledged
\* when the stream ended or the close frame carried nothing.
C10_CloseBeforeAckFails ==
    (ctx = "connect" /\ StreamOver) =>
        /\ pc[SessionTask] = "failed"
        /\ connected = IF stream \in CloseCodes
                       THEN "ServerClosed"
                       ELSE "SetupNotAcknowledged"

\* C10 witness: the stream ended during the handshake and connect failed
\* with SetupNotAcknowledged
C10_Witness ==
    /\ ctx = "connect"
    /\ stream = "end"
    /\ connected = "SetupNotAcknowledged"
    /\ pc[SessionTask] = "failed"

\* C10 as claimed: whenever the connection closes before SetupComplete is
\* observed, connect fails with SetupNotAcknowledged.
C10_AlwaysSetupNotAcknowledged ==
    (ctx = "connect" /\ StreamOver) =>
        /\ pc[SessionTask] = "failed"
        /\ connected = "SetupNotAcknowledged"

\* the inbound half was ended by a close frame
CloseStreams == {"close"} \cup CloseCodes

\* C11 as claimed: the recv call that reads a close frame sets closed and
\* ends the stream; it returns None when the closure is graceful (the close
\* frame carries nothing, or carries the Normal code) and ServerClosed only
\* when the close frame carries an abnormal code and reason.
C11_GracefulCloseIsNone ==
    [][(ctx = "recv" /\ stream = "open" /\ stream' \in CloseStreams) =>
          /\ closed'
          /\ pc'[SessionTask] = "idle"
          /\ res'[SessionTask] = IF stream' \in {"close", "Normal"}
                                 THEN "None"
                                 ELSE "ServerClosed"]_vars

\* parse_server_event has returned
Classified == parsed # NoParse

\* the known event-kind keys a message body holds
KnownIn(v) ==
    {k \in v.keys : \E i \in 1..Len(known_keys) : known_keys[i] = k}

\* the elements of a sequence
Range(seq) == {seq[i] : i \in 1..Len(seq)}

\* the usage metadata of a message body, when there is any, decodes
UsageDecodes(v) == "usageMetadata" \notin v.bad

\* the usage metadata is attached to the event exactly when the body has it
UsageAttached == parsed.usage = ("usageMetadata" \in body.keys)

\* C12: an object without an error key that holds two or more known
\* event-kind keys never classifies as an event: the result is
\* MultipleServerMessageTypes listing exactly the known keys present, each
\* once, whatever their payloads are, provided its usage metadata, when
\* present, decodes; when that does not decode the result is the decode
\* error.
C12_MultipleKindsRejected ==
    (/\ Classified
     /\ body.json = "object"
     /\ "error" \notin body.keys
     /\ Cardinality(KnownIn(body)) >= 2) =>
        /\ ~parsed.ok
        /\ IF UsageDecodes(body)
           THEN /\ parsed.err = "MultipleServerMessageTypes"
                /\ Range(parsed.matched) = KnownIn(body)
                /\ Len(parsed.matched) = Cardinality(KnownIn(body))
           ELSE parsed.err = "Serde"

\* C12 witness: a body with serverContent and toolCall, the toolCall payload
\* undecodable, was rejected naming both keys
C12_Witness ==
    /\ body.keys = {"serverContent", "toolCall"}
    /\ body.bad = {"toolCall"}
    /\ parsed.err = "MultipleServerMessageTypes"
    /\ parsed.matched = <<"serverContent", "toolCall">>

\* C12 as claimed: every object without an error key that holds two or more
\* known event-kind keys fails with MultipleServerMessageTypes listing
\* exactly the matched keys.
C12_AlwaysMultipleServerMessageTypes ==
    (/\ Classified
     /\ body.json = "object"
     /\ "error" \notin body.keys
     /\ Cardinality(KnownIn(body)) >= 2) =>
        /\ ~parsed.ok
        /\ parsed.err = "MultipleServerMessageTypes"
        /\ Range(parsed.matched) = KnownIn(body)

\* C13: an object that holds an error key classifies as the Error event,
\* whichever known event-kind keys it also holds, provided its usage
\* metadata, when present, and the error payload decode; when either does
\* not decode the result is the decode error.
C13_ErrorTakesPriority ==
    (Classified /\ body.json = "object" /\ "error" \in body.keys) =>
        IF UsageDecodes(body) /\ "error" \notin body.bad
        THEN /\ parsed.ok
             /\ parsed.kind = "Error"
             /\ UsageAttached
        ELSE /\ ~parsed.ok
             /\ parsed.err = "Serde"

\* C13 witness: a body with an error key and two known event-kind keys
\* classified as Error
C13_Witness ==
    /\ body.keys = {"error", "serverContent", "toolCall"}
    /\ parsed.ok
    /\ parsed.kind = "Error"

\* C13 as claimed: every object that holds an error key classifies as the
\* Error event.
C13_AlwaysError ==
    (Classified /\ body.json = "object" /\ "error" \in body.keys) =>
        /\ parsed.ok
        /\ parsed.kind = "Error"

\* C14: for an object without an error key whose usage metadata, when
\* present, decodes: with no known event-kind key it classifies as Unknown
\* carrying the object less usageMetadata; with exactly one known key it
\* classifies as that key's event when the key's payload decodes and fails
\* with the decode error when it does not; the usage metadata is attached
\* to the event exactly when the body has it.  When the usage metadata
\* does not decode the result is the decode error.
C14_ZeroOrOneKind ==
    (/\ Classified
     /\ body.json = "object"
     /\ "error" \notin body.keys
     /\ Cardinality(KnownIn(body)) <= 1) =>
        IF ~UsageDecodes(body)
        THEN ~parsed.ok /\ parsed.err = "Serde"
        ELSE IF KnownIn(body) = {}
        THEN /\ parsed.ok
             /\ parsed.kind = "Unknown"
             /\ parsed.raw = body.keys \ {"usageMetadata"}
             /\ UsageAttached
        ELSE LET key == CHOOSE k \in KnownIn(body) : TRUE
             IN IF key \in body.bad
                THEN ~parsed.ok /\ parsed.err = "Serde"
                ELSE /\ parsed.ok
                     /\ parsed.kind = EventKind(key)
                     /\ UsageAttached

\* C14 witness: a body holding usage metadata and a field the client does
\* not know classified as Unknown, the usage metadata detached from the
\* raw object and attached to the event
C14_Witness ==
    /\ body.keys = {"usageMetadata", "futureField"}
    /\ parsed.ok
    /\ parsed.kind = "Unknown"
    /\ parsed.raw = {"futureField"}
    /\ parsed.usage

\* C14 as claimed: every object without an error key classifies as Unknown
\* when it holds no known event-kind key and as the event of its key when
\* it holds exactly one, the usage metadata attached.
C14_AlwaysClassified ==
    (/\ Classified
     /\ body.json = "object"
     /\ "error" \notin body.keys
     /\ Cardinality(KnownIn(body)) <= 1) =>
        /\ parsed.ok
        /\ UsageAttached
        /\ IF KnownIn(body) = {}
           THEN /\ parsed.kind = "Unknown"
                /\ parsed.raw = body.keys \ {"usageMetadata"}
           ELSE parsed.kind = EventKind(CHOOSE k \in KnownIn(body) : TRUE)

\* C15: the producer stores a frame and signals the Notify exactly for the
\* BGRA video frames the capture source yields; an audio frame or a video
\* frame of another format is skipped and the loop goes on to the next
\* item; the loop ends only when the source reports an error, and from
\* then on nothing is written to the cache.
C15_OnlyErrorEndsProducer ==
    /\ [](ppc = "exited" <=> last_item = "Err")
    /\ [](ppc = "notify" => last_item = "BGRA")
    /\ [][yielded' # yielded =>
            /\ (last_item' = "BGRA") <=>
                  (/\ produced' = produced + 1
                   /\ last_frame' = <<produced'>>
                   /\ ppc' = "notify")
            /\ last_item' \in {"OtherVideo", "Audio"} =>
                  (ppc' = "next" /\ UNCHANGED <<last_frame, produced>>)
            /\ last_item' = "Err" =>
                  (ppc' = "exited" /\ UNCHANGED <<last_frame, produced>>)
            /\ UNCHANGED <<permit, waiters>>]_vars
    /\ [][(permit' # permit /\ permit') \/ Len(waiters') < Len(waiters) =>
            ppc = "notify"]_vars
    /\ [][ppc = "exited" =>
            /\ UNCHANGED <<ppc, yielded, produced>>
            /\ last_frame' \in {last_frame, <<>>}]_vars

\* C15 witness: the source yielded an audio or non-BGRA frame, then a BGRA
\* frame, which was stored and is still cached, then an error, on which
\* the loop ended
C15_Witness ==
    /\ ppc = "exited"
    /\ yielded >= 3
    /\ produced = 1
    /\ last_frame = <<1>>
    /\ returned = <<>>

\* C15 as claimed: a frame is stored and signalled only for BGRA video
\* frames, and when the source yields any other frame kind or reports the
\* end of the stream the producer loop terminates and writes no further
\* frame.
C15_OtherKindsEndProducer ==
    /\ [](ppc = "notify" => last_item = "BGRA")
    /\ [](last_item \in {"OtherVideo", "Audio", "Err"} => ppc = "exited")
    /\ [][ppc = "exited" =>
            /\ UNCHANGED <<ppc, yielded, produced>>
            /\ last_frame' \in {last_frame, <<>>}]_vars

\* C16: once the producer loop has ended with the cache empty, the cache
\* stays empty and no get_next_frame call returns: a call in progress stays
\* in progress and a call made later never comes back; and no call ever
\* returns anything but Ok with a frame.
C16_NoReturnAfterSourceClosed ==
    /\ [](\A c \in Consumers :
            /\ got[c].result \in {"none", "Ok"}
            /\ got[c].result = "Ok" <=> got[c].frame # NoFrame
            /\ cpc[c] # "idle" => got[c].result = "none")
    /\ [][(ppc = "exited" /\ last_frame = <<>>) =>
            /\ ppc' = "exited"
            /\ last_frame' = <<>>
            /\ returned' = returned
            /\ \A c \in Consumers :
                  /\ cpc[c] # "idle" => cpc'[c] # "idle"
                  /\ got'[c].result = "Ok" => got'[c] = got[c]]_vars

\* C16 witness: the source closed before any frame arrived and a
\* get_next_frame call waits on the Notify
C16_Witness ==
    /\ ppc = "exited"
    /\ produced = 0
    /\ last_frame = <<>>
    /\ \E c \in Consumers : cpc[c] = "waiting" /\ got[c].result = "none"

\* number of pong frames written to the outbound half
PongFrames == Len(SelectSeq(outWire, LAMBDA f : f.kind = "pong"))

\* the session task hands a result to the caller of connect or recv
Returns(r) ==
    IF ctx = "recv"
    THEN pc'[SessionTask] = "idle" /\ res'[SessionTask] = r
    ELSE pc'[SessionTask] = "failed" /\ connected' = r

\* C17: a ping read from the inbound half produces no event and no
\* result: the task goes for the outbound lock holding the ping's payload;
\* under the lock it writes one pong carrying that payload and goes back
\* to reading, or, when the write fails, writes nothing and returns the
\* transport error.  Pongs are written nowhere else.  A pong read from the
\* inbound half changes nothing: no event, no write, no result.
C17_PingAnsweredPongIgnored ==
    /\ [](pc[SessionTask] \in {"pong_lock", "pong_write"} =>
            (inbound.type = "Ping" /\ msg[SessionTask] = inbound.text))
    /\ [](pc[SessionTask] = "pong_write" => lockHolder = SessionTask)
    /\ [][(polls' # polls /\ inbound'.type = "Ping") =>
            /\ pc'[SessionTask] = "pong_lock"
            /\ UNCHANGED <<outWire, events, delivered, pending, res,
                           connected, closed>>]_vars
    /\ [][(pc[SessionTask] = "pong_write"
            /\ pc'[SessionTask] # "pong_write") =>
            \/ /\ outWire' = Append(outWire, Frame("pong", inbound.text))
               /\ pc'[SessionTask] = "rne_read"
               /\ UNCHANGED <<events, delivered, pending, res, connected>>
            \/ /\ outWire' = outWire
               /\ Returns("WebSocket")]_vars
    /\ [][PongFrames' # PongFrames => pc[SessionTask] = "pong_write"]_vars
    /\ [][(polls' # polls /\ inbound'.type = "Pong") =>
            UNCHANGED <<pc, outWire, events, delivered, pending, res, msg,
                        connected, closed, lockHolder>>]_vars

\* C17 witness: recv read a ping, wrote the pong with the ping's payload
\* and went on to read a pong, which it ignored; it is still reading
C17_Witness ==
    /\ ctx = "recv"
    /\ pc[SessionTask] = "rne_read"
    /\ inbound.type = "Pong"
    /\ outWire # <<>>
    /\ outWire[Len(outWire)] = Frame("pong", "p1")

\* C17 as claimed: a ping read by recv produces no event and causes
\* exactly one pong with the same payload to be written under the lock,
\* after which recv keeps reading; a pong is ignored.
C17_PingAlwaysAnswered ==
    /\ [](pc[SessionTask] = "pong_write" => lockHolder = SessionTask)
    /\ [][(polls' # polls /\ inbound'.type = "Ping") =>
            /\ pc'[SessionTask] = "pong_lock"
            /\ UNCHANGED <<outWire, events, delivered, pending, res>>]_vars
    /\ [][(ctx = "recv" /\ pc[SessionTask] = "pong_write"
            /\ pc'[SessionTask] # "pong_write") =>
            /\ outWire' = Append(outWire, Frame("pong", inbound.text))
            /\ pc'[SessionTask] = "rne_read"
            /\ UNCHANGED <<events, delivered, pending, res>>]_vars
    /\ [][(polls' # polls /\ inbound'.type = "Pong") =>
            UNCHANGED <<pc, outWire, events, delivered, pending, res>>]_vars

\* number of setup frames written to the outbound half
SetupFrames == Len(SelectSeq(outWire, LAMBDA f : f.kind = "setup"))

\* C18: when the upgrade response carries a status other than switching
\* protocols, connect has failed with HandshakeStatus carrying that status,
\* nothing was written to or read from the transport and no session or
\* sender handle exists; on every path connect asks for the transport
\* connection once - once it has, it never does again, and a failed
\* connect does nothing further - and at most one setup frame is written.
C18_HandshakeStatusFatal ==
    /\ [](response \notin {NoResponse, SWITCHING_PROTOCOLS} =>
            /\ connected = HandshakeStatus(response)
            /\ pc[SessionTask] = "failed"
            /\ outWire = <<>>
            /\ polls = 0
            /\ \A h \in Handles : op[h] = "none")
    /\ [](SetupFrames <= 1)
    /\ [](connected = "Ok" => response = SWITCHING_PROTOCOLS)
    /\ [][pc[SessionTask] # "start" =>
            (pc'[SessionTask] # "start" /\ response' = response)]_vars
    /\ [][pc[SessionTask] = "failed" => UNCHANGED sessionVars]_vars

\* C18 witness: the upgrade response came back with status 403 and connect
\* failed with HandshakeStatus carrying 403
C18_Witness ==
    /\ response = "403"
    /\ connected = "HandshakeStatus 403"
    /\ pc[SessionTask] = "failed"
    /\ outWire = <<>>

\* number of client messages written to the outbound half
ClientFrames == Len(SelectSeq(outWire, LAMBDA f : f.kind = "client"))

\* C19: in capture_frames(count) a frame that fails to encode, to be saved
\* or to be sent (ConnectionClosed after the session was closed included)
\* does not end the call: the call returns only from the head of its loop,
\* once it has made exactly count get_next_frame calls, and it returns Ok;
\* each turn makes one get_next_frame call, and the client messages written
\* never outnumber the calls made, so they are at most count.
C19_FailuresDoNotAbort ==
    /\ [](index <= count)
    /\ [](bpc = "done" => (bres = "Ok" /\ index = count))
    /\ [](bpc # "done" => bres = "none")
    /\ [](ClientFrames <= index)
    /\ [][(bpc # "done" /\ bpc' = "done") => bpc = "loop"]_vars
    /\ [][(bpc \in {"next_frame", "sending"} /\ bpc' # bpc) =>
            bpc' \in {"loop", "sending"}]_vars
    /\ [][index' # index =>
            /\ index' = index + 1
            /\ cpc[BridgeConsumer] = "idle"
            /\ cpc'[BridgeConsumer] # "idle"]_vars

\* C19 witness: capture_frames(MaxCount) returned Ok after MaxCount
\* get_next_frame calls although the last frame's send was rejected with
\* ConnectionClosed, fewer messages than frames having been written
C19_Witness ==
    /\ bpc = "done"
    /\ bres = "Ok"
    /\ count = MaxCount
    /\ index = MaxCount
    /\ logged = "send"
    /\ res[BridgeHandle] = "ConnectionClosed"
    /\ closed
    /\ ClientFrames < count

DecodeErrors == {"Serde", "UnexpectedServerMessage",
                 "MultipleServerMessageTypes"}

\* the session task's step is a read of the inbound half inside recv
RecvReads == ctx = "recv" /\ polls' # polls

\* the session task's step is a call of recv
RecvCalled ==
    /\ pc[SessionTask] = "idle"
    /\ op'[SessionTask] = "recv"
    /\ res'[SessionTask] # res[SessionTask]

\* C21: when recv reads a Text or Binary message whose payload cannot be
\* decoded or classified (not JSON, not an object, several event kinds),
\* recv returns that error and leaves the session as it was: closed keeps
\* its value, the pending queue and the events delivered are unchanged
\* and the inbound half stays open; a recv call made after such an error,
\* with closed still unset, goes on to read the inbound half; and a read
\* sets closed only on a close frame or at the end of the stream.
C21_DecodeErrorLeavesSession ==
    /\ [][(RecvReads /\ inbound'.type \in {"Text", "Binary"}
            /\ ItemResult(inbound') # "Some") =>
            /\ ItemResult(inbound') \in DecodeErrors
            /\ res'[SessionTask] = ItemResult(inbound')
            /\ pc'[SessionTask] = "idle"
            /\ UNCHANGED <<closed, pending, delivered, events, stream,
                           outWire, lockHolder>>]_vars
    /\ [][(RecvCalled /\ res[SessionTask] \in DecodeErrors
            /\ ~closed) =>
            /\ pending = <<>>
            /\ pc'[SessionTask] = "rne_read"
            /\ polls' = polls]_vars
    /\ [][(polls' # polls /\ closed' # closed) =>
            inbound'.type \in {"Close", "End"}]_vars

\* C21 witness: recv failed on a message with two event kinds, closed
\* stayed unset, and the next recv call is reading the inbound half
C21_Witness ==
    /\ ctx = "recv"
    /\ pc[SessionTask] = "rne_read"
    /\ inbound.type = "Binary"
    /\ ItemResult(inbound) = "MultipleServerMessageTypes"
    /\ ~closed
    /\ stream = "open"

\* C22: a recv call that starts while closed is set and the pending queue
\* is empty returns None at once: it does not read the inbound half and
\* delivers nothing. This holds however the flag came to be set: by a
\* close on the session or on a sender handle, by a close frame read, or
\* by the end of the stream.
C22_RecvWhenClosedIsNone ==
    [][(RecvCalled /\ closed /\ pending = <<>>) =>
         /\ res'[SessionTask] = "None"
         /\ pc'[SessionTask] = "idle"
         /\ UNCHANGED <<polls, inbound, stream, events, delivered, pending,
                        closed, outWire, lockHolder>>]_vars

\* C22 witness: the inbound half is still open, a sender handle's close
\* has set the flag, and a recv call that started afterwards with nothing
\* pending returned None
C22_Witness ==
    /\ stream = "open"
    /\ closed
    /\ \E h \in Handles : op[h] = "close" /\ res[h] = "Ok"
    /\ op[SessionTask] = "recv"
    /\ since[SessionTask].closeOk
    /\ pc[SessionTask] = "idle"
    /\ res[SessionTask] = "None"
    /\ pending = <<>>

\* C23: no frame is returned by two get_next_frame calls; a call returns
\* a frame only in the step that takes it out of the slot under the write
\* guard, the frame returned is the one the slot held, and the slot is
\* empty right after that step; the producer's store and another call's
\* take are separate steps.
C23_FrameReturnedOnce ==
    /\ [](\A i, j \in 1..Len(returned) :
            returned[i] = returned[j] => i = j)
    /\ [](\A c, d \in Consumers :
            (c # d /\ got[c].frame # NoFrame) =>
              got[c].frame # got[d].frame)
    /\ [][returned' # returned =>
            /\ last_frame # <<>>
            /\ returned' = Append(returned, Head(last_frame))
            /\ last_frame' = <<>>
            /\ produced' = produced
            /\ \E c \in Consumers :
                 /\ cpc[c] = "take"
                 /\ cpc'[c] = "idle"
                 /\ got'[c].frame = Head(last_frame)
                 /\ \A d \in Consumers \ {c} :
                      cpc'[d] = cpc[d] /\ got'[d] = got[d]]_vars

\* C23 witness: two get_next_frame calls that both started before any
\* frame was stored have returned, each with a frame of its own
C23_Witness ==
    /\ \A c \in Consumers :
         /\ got[c].result = "Ok"
         /\ got[c].atStart = 0
         /\ cpc[c] = "idle"
    /\ Len(returned) = 2
    /\ last_frame = <<>>

\* a ClientContent with one turn made of text parts only
OneTextTurn(cc) ==
    /\ Len(cc.turns) = 1
    /\ cc.turns[1].parts # <<>>
    /\ \A i \in 1..Len(cc.turns[1].parts) :
         cc.turns[1].parts[i].variant = "Text"

\* C24: a ClientContent with one text turn and turn_complete = Some(true),
\* serialized and deserialized again, comes back as a ClientContent with
\* the same list of turns and the same turn_complete.
C24_ClientContentRoundTrip ==
    (/\ decoded # NotDecoded
     /\ OneTextTurn(message.client_content)
     /\ message.client_content.turn_complete = Some(TRUE)) =>
      /\ decoded.ok
      /\ decoded.val[1].turns = message.client_content.turns
      /\ decoded.val[1].turn_complete = Some(TRUE)

\* C24 witness: the turn Content::text("user", "hello") with turn_complete
\* = Some(true) has been serialized, with its members turns and
\* turnComplete, and deserialized to an equal ClientContent
C24_Witness ==
    /\ message.client_content =
         ClientContent(<<Content(Some("user"), <<PartText("hello")>>)>>,
                       Some(TRUE))
    /\ decoded = DeOk(message.client_content)
    /\ HasKey(encoded, "clientContent")
    /\ TopLevelKeys(Get(encoded, "clientContent")) =
         {"turns", "turnComplete"}

\* C25: the document a client message is serialized to is one JSON object
\* with exactly one top-level member, whose key is clientContent,
\* realtimeInput or toolResponse according to the variant of the message.
C25_OneKindKey ==
    encoded # NoDocument =>
      /\ encoded.t = "object"
      /\ Cardinality(encoded.o) = 1
      /\ TopLevelKeys(encoded) =
           CASE message.variant = "ClientContent" -> {"clientContent"}
             [] message.variant = "RealtimeInput" -> {"realtimeInput"}
             [] message.variant = "ToolResponse"  -> {"toolResponse"}

\* C25 witness: a RealtimeInput message carrying a text has been
\* serialized to an object whose only key is realtimeInput
C25_Witness ==
    /\ message.variant = "RealtimeInput"
    /\ message.text = Some("hello")
    /\ encoded # NoDocument
    /\ TopLevelKeys(encoded) = {"realtimeInput"}

\* C26 as claimed: whatever the interleaving of the close calls of the
\* session and of its sender handles, at most one close frame is written
\* to the outbound half.
C26_AtMostOneCloseFrame == CloseFrames <= 1

\* C27 as claimed: no client message and no pong is written to the
\* outbound half after a close frame has been written to it.
C27_NothingAfterCloseFrame ==
    \A i, j \in 1..Len(outWire) :
        (i < j /\ outWire[i].kind = "close") =>
            outWire[j].kind \notin {"client", "pong"}

\* C28: a task holds the outbound lock only while it is at its write: not
\* while it checks the flag and serializes (it then still has to ask for
\* the lock, the serialized message in hand), not while it waits for the
\* lock, not while it waits on the inbound half and not once its call has
\* returned. The step that writes appends at most one frame and gives the
\* lock back, whether the write succeeded or failed; this holds for
\* send_message_internal and for send_setup.
C28_LockHeldOnlyForWrite ==
    /\ [](\A t \in Tasks : lockHolder = t <=> pc[t] \in WritePcs)
    /\ [][\A t \in Tasks :
            (pc[t] \in {"idle", "start"}
             /\ pc'[t] \in {"send_lock", "setup_lock"}) =>
              /\ lockHolder' = lockHolder
              /\ lockHolder # t
              /\ outWire' = outWire
              /\ (pc'[t] = "send_lock" =>
                    msg'[t] \in ClientMessageKinds)]_vars
    /\ [][\A t \in Tasks :
            (pc[t] \in {"send_write", "setup_write"} /\ pc'[t] # pc[t]) =>
              /\ lockHolder = t
              /\ lockHolder' = NoTask
              /\ \/ outWire' = outWire
                 \/ \E f \in {Frame("client", "json"),
                               Frame("setup", "json")} :
                      outWire' = Append(outWire, f)
              /\ (pc[t] = "send_write" =>
                    /\ pc'[t] = "idle"
                    /\ res'[t] \in {"Ok", "WebSocket"}
                    /\ (res'[t] = "Ok" <=> outWire' # outWire))]_vars

\* C28 witness: a send on a sender handle failed at its write and has
\* returned; the lock is free again while the session task waits on the
\* inbound half inside recv
C28_Witness ==
    /\ \E h \in Handles :
         op[h] = "send" /\ pc[h] = "idle" /\ res[h] = "WebSocket"
    /\ lockHolder = NoTask
    /\ ctx = "recv"
    /\ pc[SessionTask] = "rne_read"

\* a woken task or a first attempt that finds the slot empty goes to wait
\* on frame_ready and has returned nothing
EmptySlotWaitsAgain ==
    [][\A c \in Consumers :
         (cpc[c] = "take" /\ last_frame = <<>> /\ cpc'[c] # "take") =>
           /\ cpc'[c] = "poll"
           /\ got'[c].result = "none"]_vars

\* C29: under fair scheduling, while a get_next_frame call is pending and
\* a frame is cached (stored before or after the call started), a frame
\* is eventually returned: to this call, unless a concurrent call takes
\* the frame first; and a task that finds the slot empty waits again.
C29_CachedFrameIsReturned ==
    /\ \A c \in Consumers : \A n \in 0..MaxFrames :
         (cpc[c] # "idle" /\ last_frame # <<>> /\ Len(returned) = n)
           ~> (got[c].result = "Ok" \/ Len(returned) > n)
    /\ EmptySlotWaitsAgain

\* C29 witness: a call that started before any frame was stored lost the
\* first frame to a concurrent call and has returned the second one
C29_Witness ==
    /\ got["c1"] = Result("Ok", 2, 2, 0)
    /\ got["c2"].frame = 1
    /\ returned = <<1, 2>>

\* C29 as claimed: under fair scheduling, a pending get_next_frame call
\* eventually returns a frame if the producer has stored a frame since the
\* call started or a frame is cached; and a task that finds the slot empty
\* waits again.
C29_PendingCallReturns ==
    /\ \A c \in Consumers :
         (cpc[c] # "idle"
          /\ (last_frame # <<>> \/ produced > got[c].atStart))
           ~> (got[c].result = "Ok")
    /\ EmptySlotWaitsAgain

\* pcs of a send or close call that has not returned yet
CallPcs == {"send_lock", "send_write", "close_lock", "close_write",
            "close_store"}

\* C30: with a lock that serves its waiters fairly and writes that
\* complete, every task that waits for the outbound lock (a sender, a
\* closer, connect sending the setup, the receive loop answering a ping)
\* comes to hold it, and every send or close call that has started
\* returns; in no state does a task wait for a lock that nobody can free:
\* the lock is then free or held by a task that is at its write.
C30_LockIsGrantedCallsReturn ==
    /\ \A t \in Tasks : (pc[t] \in LockPcs) ~> (lockHolder = t)
    /\ \A t \in Tasks : (pc[t] \in CallPcs) ~> (pc[t] = "idle")
    /\ []((\E t \in Tasks : pc[t] \in LockPcs) =>
            \/ lockHolder = NoTask
            \/ \E t \in Tasks : lockHolder = t /\ pc[t] \in WritePcs)

\* C30 witness: the receive loop, answering a ping, and a sender handle
\* both wait for the outbound lock, which is free
C30_Witness ==
    /\ pc[SessionTask] = "pong_lock"
    /\ \E h \in Handles : pc[h] \in {"send_lock", "close_lock"}
    /\ lockHolder = NoTask
    /\ loop = "running"

\* C31: the closed flag is monotonic: no step of the session task or of a
\* task holding a sender handle takes it from set back to unset.
C31_ClosedIsMonotonic == [][closed => closed']_vars

\* C31 witness: a close call on a handle has failed at its write and a
\* recv that started after the end of the stream was seen has returned
\* None at once; the flag is still set
C31_Witness ==
    /\ closed
    /\ \E h \in Handles : op[h] = "close" /\ res[h] = "WebSocket"
    /\ op[SessionTask] = "recv"
    /\ res[SessionTask] = "None"
    /\ pc[SessionTask] = "idle"
    /\ since[SessionTask].ended

\* the SetupComplete that ended the handshake
Ack == events[AckIndex(events)]

\* C32: at the step in which connect returns a session the closed flag is
\* unset and the pending queue holds neither a SetupComplete nor an Error
\* event; and the SetupComplete that ended the handshake is neither in the
\* pending queue nor among the events recv returns, at any time.
C32_ConnectedSessionIsClean ==
    /\ [][(connected # "Ok" /\ connected' = "Ok") =>
            /\ ~closed'
            /\ \A i \in 1..Len(pending') :
                 pending'[i].kind \notin {"SetupComplete", "Error"}
            /\ delivered' = <<>>
            /\ events'[Len(events')].kind = "SetupComplete"]_vars
    /\ [](connected = "Ok" =>
            /\ \A i \in 1..Len(pending) : pending[i] # Ack
            /\ \A i \in 1..Len(delivered) : delivered[i] # Ack)

\* C32 witness: connect returned a session that had buffered an event, and
\* recv has since returned that event and a SetupComplete that arrived
\* after the handshake
C32_Witness ==
    /\ connected = "Ok"
    /\ ~closed
    /\ Len(delivered) = 2
    /\ delivered[1].seq < Ack.seq
    /\ delivered[2].kind = "SetupComplete"
    /\ delivered[2].seq > Ack.seq

\* number of events buffered during the handshake
Buffered == AckIndex(events) - 1

\* C33: once connect has returned, a step either leaves the pending queue
\* as it is or removes its head, and the head is removed only by a recv
\* call, which returns it; so the queue holds the buffered events less one
\* for every event recv has returned, and is empty once recv has returned
\* as many events as were buffered.
C33_PendingNeverGrows ==
    /\ [][connected = "Ok" =>
            \/ pending' = pending
            \/ /\ pending # <<>>
               /\ pending' = Tail(pending)
               /\ pc[SessionTask] = "idle"
               /\ pc'[SessionTask] = "idle"
               /\ op'[SessionTask] = "recv"
               /\ res'[SessionTask] = "Some"
               /\ delivered' = Append(delivered, Head(pending))]_vars
    /\ [](connected = "Ok" =>
            Len(pending) = IF Len(delivered) < Buffered
                           THEN Buffered - Len(delivered) ELSE 0)

\* C33 witness: two events were buffered during the handshake, a send was
\* made in between, and after two recv calls the queue is empty
C33_Witness ==
    /\ connected = "Ok"
    /\ Buffered = 2
    /\ Len(delivered) = 2
    /\ pending = <<>>
    /\ ClientFrames = 1

\* the last call of task t was a close whose write of the close frame
\* failed
CloseFailed(t) ==
    /\ pc[t] = "idle"
    /\ op[t] = "close"
    /\ res[t] = "WebSocket"

\* C34: the step in which the write of the close frame fails returns the
\* transport error from close, writes nothing and leaves the closed flag as
\* it was; and while the flag is unset after such a close, the next close
\* of that task goes on to write a close frame and its next send is not
\* rejected with ConnectionClosed.
C34_FailedCloseLeavesFlag ==
    [][\A t \in Tasks :
         /\ (pc[t] = "close_write" /\ pc'[t] = "idle") =>
               /\ res'[t] = "WebSocket"
               /\ closed' = closed
               /\ outWire' = outWire
               /\ closeOk' = closeOk
         /\ (CloseFailed(t) /\ ~closed) =>
               /\ res'[t] # "ConnectionClosed"
               /\ (op'[t] = "close" /\ <<pc[t], res[t]>> # <<pc'[t], res'[t]>>)
                    => pc'[t] = "close_lock"
               /\ (op'[t] = "send" /\ <<pc[t], res[t]>> # <<pc'[t], res'[t]>>)
                    => pc'[t] = "send_lock"]_vars

\* C34 witness: a close of a sender handle failed in its write, the flag
\* is unset, no close frame is on the wire and a close of the session is
\* past the flag check, about to write a close frame
C34_Witness ==
    /\ ~closed
    /\ CloseFrames = 0
    /\ \E h \in Handles : CloseFailed(h)
    /\ pc[SessionTask] = "close_write"

\* the step is the start of a recv call of the session
RecvStarts ==
    /\ pc[SessionTask] = "idle"
    /\ op'[SessionTask] = "recv"
    /\ \/ op'[SessionTask] # op[SessionTask]
       \/ since'[SessionTask] # since[SessionTask]
       \/ res'[SessionTask] # res[SessionTask]
       \/ pc'[SessionTask] # pc[SessionTask]
       \/ delivered' # delivered

\* C35: a recv call that starts while the closed flag is set returns the
\* head of the pending queue and removes it as long as the queue is not
\* empty, and returns None, without reading the wire, once it is empty.
C35_CloseKeepsBufferedEvents ==
    [][(closed /\ RecvStarts) =>
         IF pending # <<>>
         THEN /\ res'[SessionTask] = "Some"
              /\ delivered' = Append(delivered, Head(pending))
              /\ pending' = Tail(pending)
         ELSE /\ res'[SessionTask] = "None"
              /\ pc'[SessionTask] = "idle"
              /\ delivered' = delivered
              /\ polls' = polls]_vars

\* C35 witness: two events were buffered; a recv that started after close
\* had returned Ok returned the first of them and the second is still
\* queued
C35_Witness ==
    /\ closed
    /\ closeOk
    /\ CloseFrames = 1
    /\ stream = "open"
    /\ Buffered = 2
    /\ op[SessionTask] = "recv"
    /\ res[SessionTask] = "Some"
    /\ since[SessionTask].closeOk
    /\ Len(delivered) = 1
    /\ Len(pending) = 1

\* recv is in receiver.next().await of a wire read, the stream is open and
\* the closed flag has been set meanwhile by the close of a sender handle
WaitingWhileClosed ==
    /\ pc[SessionTask] = "rne_read"
    /\ ctx = "recv"
    /\ closed
    /\ stream = "open"
    /\ \E h \in Handles : op[h] = "close" /\ res[h] = "Ok"

\* C36: a wire read of recv that finds the closed flag set while it waits
\* goes on as if the flag were unset: a message that decodes to one event
\* is returned by recv and counts as delivered, with closed set, and the
\* read returns None only for a close frame or the end of the stream.
C36_WaitingRecvIgnoresFlag ==
    [][(WaitingWhileClosed /\ polls' # polls) =>
         /\ closed'
         /\ (/\ inbound'.type \in {"Text", "Binary"}
             /\ inbound'.text = "json"
             /\ parse_server_event(inbound'.value).ok) =>
               /\ res'[SessionTask] = "Some"
               /\ pc'[SessionTask] = "idle"
               /\ delivered' = Append(delivered,
                      Event(parse_server_event(inbound'.value).kind, polls'))
         /\ (res'[SessionTask] = "None" /\ pc'[SessionTask] = "idle") =>
               inbound'.type \in {"Close", "End"}]_vars

\* C36 witness: recv returned one event and is waiting in its next wire
\* read, which it began before the close of a sender handle returned Ok and
\* set the flag, and the inbound half can still yield an item
C36_Witness ==
    /\ WaitingWhileClosed
    /\ ~since[SessionTask].closeOk
    /\ closeOk
    /\ Len(delivered) = 1
    /\ polls < MaxInbound

\* C37: the frames get_next_frame calls have returned, in the order of
\* their return, carry strictly increasing production numbers, so no frame
\* is returned twice and none after a frame produced later; and a frame
\* returned is newer than every frame returned before it in the very step
\* that returns it.
C37_FramesInProductionOrder ==
    /\ [](\A i, j \in 1..Len(returned) :
            i < j => returned[i] < returned[j])
    /\ [](\A i \in 1..Len(returned) : returned[i] \in 1..produced)
    /\ [][returned' # returned =>
            /\ Len(returned') = Len(returned) + 1
            /\ SubSeq(returned', 1, Len(returned)) = returned
            /\ \A i \in 1..Len(returned) :
                 returned[i] < returned'[Len(returned')]]_vars

\* C37 witness: three frames were produced; the first and the third were
\* returned, in that order, and the second was overwritten in the slot
C37_Witness ==
    /\ produced = 3
    /\ returned = <<1, 3>>
    /\ last_frame = <<>>
    /\ \A c \in Consumers : cpc[c] = "idle"

\* C38: a recv call returns ServerClosed only in the step that reads a
\* close frame carrying a code from a stream that was open, and that step
\* sets closed; from then on the stream stays closed, closed stays set and
\* the pending queue is empty, and every recv call that starts returns
\* None at once without reading the wire - so at most one recv call of a
\* session returns ServerClosed.
C38_ServerClosedOnce ==
    /\ [][(/\ ctx = "recv"
            /\ res'[SessionTask] = "ServerClosed"
            /\ res[SessionTask] # "ServerClosed") =>
              /\ pc[SessionTask] = "rne_read"
              /\ polls' # polls
              /\ inbound'.type = "Close"
              /\ inbound'.frame # NoCloseFrame
              /\ stream = "open"
              /\ stream' \in CloseCodes
              /\ closed']_vars
    /\ [][(stream \in CloseCodes) => (stream' = stream)]_vars
    /\ []((connected = "Ok" /\ stream \in CloseCodes) =>
            closed /\ pending = <<>>)
    /\ [][(connected = "Ok" /\ stream \in CloseCodes /\ RecvStarts) =>
            /\ res'[SessionTask] = "None"
            /\ pc'[SessionTask] = "idle"
            /\ polls' = polls
            /\ delivered' = delivered]_vars

\* C38 witness: after a recv call read a close frame with a code and
\* returned ServerClosed, a later recv call has returned None
C38_Witness ==
    /\ connected = "Ok"
    /\ stream \in CloseCodes
    /\ closed
    /\ op[SessionTask] = "recv"
    /\ res[SessionTask] = "None"
    /\ pc[SessionTask] = "idle"

====
